---- MODULE Spec2Model ----
(***************************************************************************)
(* Order and pricing engine of the canteen application (src/main.py):      *)
(* offer resolution, best-discount pricing, the student's cart, order      *)
(* creation with token allocation, order status updates, and the staff     *)
(* actions on the menu and on the offers.                                  *)
(*                                                                         *)
(* Money is an integer number of 1/10000 rupee, so that a price with two   *)
(* decimals less a whole percentage of it is exact.  Amounts are exact     *)
(* decimals, except in the section on Order.create in double precision,    *)
(* where the total is computed in the doubles the program computes it in.  *)
(* Dates are the days of one month; a date text is the sequence of the     *)
(* digits of its day part (the "YYYY-MM-" prefix is common to every text   *)
(* and never decides a comparison).                                        *)
(***************************************************************************)
EXTENDS Integers, Sequences, FiniteSets, TLC

VARIABLES
    users,        \* table users: user_id -> [name, role]
    currentUser,  \* CanteenApp.current_user (a user_id, or NoUser)
    menu,         \* table menu: item_id -> [item_name, price, available]
    itemSeq,      \* AUTOINCREMENT counter of menu.item_id
    menuTree,     \* StudentDashboard.menu_tree: item_id -> [item_name, price]
    offers,       \* table offers: offer_id -> offer row
    offerSeq,     \* AUTOINCREMENT counter of offers.offer_id
    now,          \* the clock: the current day of the month
    cart,         \* StudentDashboard.cart, in insertion order
    added,        \* history: item_id -> quantity added since the cart was last emptied
    filledBy,     \* history: the users who added to the cart since it was last emptied
    totalVar,     \* StudentDashboard.total_var, the displayed cart total
    orders,       \* table orders, in order_id order (order_id = index)
    qr,           \* what _show_qr_modal was last given: <<order_id, amount>>
    hung,         \* the process is inside a call that never returns
    receipts,     \* the receipts generated: the order_data each was made from
    dialog,       \* title of the error or warning box on screen, None if none
    cdpPrice,     \* argument original_price of a calculate_discounted_price call
    cdpOffers,    \* argument offers of that call
    cdpResult,    \* what the call returned: <<>> before it returns, then
                  \* <<[price, desc]>>
    ocItems,      \* argument cart_items of an Order.create call
    ocOther,      \* the same lines, rearranged, given to a second call
    ocResult,     \* the totals of the two calls: <<>> before they return
    coArgs,       \* arguments of a create_order call followed step by step:
                  \* <<>> when there is none, else <<user_id, items, total_amount>>
    coPc,         \* where that call is: "idle", "draw", "test" or "insert"
    coToken,      \* the candidate token of _generate_unique_token
    coOther,      \* a create_order call of a second process on the same store:
                  \* [args, pc, token]
    dbOutcome     \* how the last DatabaseHandler call made on its own ended:
                  \* <<>> before any, else <<op, "returned", value>> or
                  \* <<op, "raised", error>>

vars == <<users, currentUser, menu, itemSeq, menuTree, offers, offerSeq, now,
          cart, added, filledBy, totalVar, orders, qr, hung, receipts, dialog,
          cdpPrice, cdpOffers, cdpResult, ocItems, ocOther, ocResult,
          coArgs, coPc, coToken, coOther, dbOutcome>>

appVars == <<users, currentUser, menu, itemSeq, menuTree, offers, offerSeq, now,
             cart, added, filledBy, totalVar, orders, qr, hung, receipts, dialog>>

tokenVars == <<coArgs, coPc, coToken, coOther>>

callVars == <<cdpPrice, cdpOffers, cdpResult, ocItems, ocOther, ocResult,
              tokenVars, dbOutcome>>

-----------------------------------------------------------------------------
(* Bounds of the model *)

\* Number of tokens of the token range the model keeps (the program has 9000).
TokenSpan == 2
\* Last day the clock reaches.
LastDay == 10
\* Highest item_id the menu hands out.
MaxItemId == 8
\* Highest offer_id the offers table hands out.
MaxOfferId == 1
\* Highest quantity a cart line accumulates while orders are placed.
LedgerMaxQty == 2
\* Highest quantity a cart line accumulates.
MaxQty == 3
\* Longest offers list given to calculate_discounted_price on its own.
MaxOffersLen == 2

-----------------------------------------------------------------------------
(* Values *)

\* random.randint(1000, 9999): the lowest token.
TokenMin == 1000
\* SQL NULL in offers.item_id ("All Items").
NoItem == 0
\* One rupee and one hundredth of it, in units of money.
Rupee == 100 * 100
Cent == Rupee \div 100

NoUser == ""
\* None of an optional text: offer_desc, day_of_week.
None == ""
\* None of an optional date text (the form's `strip() or None`).
NoDate == <<>>
NoQr == <<>>

Tokens == TokenMin .. (TokenMin + TokenSpan - 1)
\* The clock starts on day 9, so that it passes from a one-digit day to a
\* two-digit one.
Days == 9 .. LastDay

Max(a, b) == IF a >= b THEN a ELSE b

\* round(x, 2) and "%.2f" % x: the nearest multiple of 0.01, an exact tie to
\* the even one.
round2(x) ==
    LET r  == x % Cent
        lo == x - r
    IN  IF 2 * r < Cent THEN lo
        ELSE IF 2 * r > Cent THEN lo + Cent
        ELSE IF (lo \div Cent) % 2 = 0 THEN lo ELSE lo + Cent

\* f"{v:.0f}" of a whole number.
Fmt0(v) == ToString(v)

\* f"{x:.2f}" of an amount >= 0.
Fmt2(x) ==
    LET c == round2(x) \div Cent
        w == c \div 100
        f == c % 100
    IN  ToString(w) \o "." \o (IF f < 10 THEN "0" ELSE "") \o ToString(f)

-----------------------------------------------------------------------------
(* Offer resolution: DatabaseHandler.get_active_offers_for_item *)

DayNames == <<"MON", "TUE", "WED", "THU", "FRI", "SAT", "SUN">>

\* now.strftime("%a").upper(), in a month whose day 2 is a Monday.
Weekday(d) == DayNames[((d + 5) % 7) + 1]

\* now.date().isoformat(): the day, zero-padded to two digits.
IsoText(d) == <<d \div 10, d % 10>>

\* SQLite's <= on two TEXT values: byte by byte, a proper prefix first.
RECURSIVE TextLeq(_, _)
TextLeq(a, b) ==
    IF a = <<>> THEN TRUE
    ELSE IF b = <<>> THEN FALSE
    ELSE IF Head(a) < Head(b) THEN TRUE
    ELSE IF Head(a) > Head(b) THEN FALSE
    ELSE TextLeq(Tail(a), Tail(b))

\* The WHERE clause of the query, for one row.
RowMatches(o, item_id, day) ==
    /\ o.active
    /\ (o.item_id = item_id \/ o.item_id = NoItem)
    /\ (o.start_date = NoDate \/ TextLeq(o.start_date, IsoText(day)))
    /\ (o.end_date = NoDate \/ TextLeq(IsoText(day), o.end_date))
    /\ (o.day_of_week = None \/ o.day_of_week = Weekday(day))

\* The dictionary built for a returned row (the column active is not selected).
OfferDict(o) ==
    [offer_id |-> o.offer_id, offer_name |-> o.offer_name, item_id |-> o.item_id,
     discount_type |-> o.discount_type, discount_value |-> o.discount_value,
     start_date |-> o.start_date, end_date |-> o.end_date,
     day_of_week |-> o.day_of_week]

\* The rows of table tbl that the query selects, in rowid order from id i on.
RECURSIVE SelectOffers(_, _, _, _, _)
SelectOffers(tbl, seq, item_id, day, i) ==
    IF i > seq THEN <<>>
    ELSE (IF i \in DOMAIN tbl /\ RowMatches(tbl[i], item_id, day)
          THEN <<OfferDict(tbl[i])>> ELSE <<>>)
         \o SelectOffers(tbl, seq, item_id, day, i + 1)

get_active_offers_for_item(item_id) ==
    SelectOffers(offers, offerSeq, item_id, now, 1)

-----------------------------------------------------------------------------
(* Pricing: calculate_discounted_price *)

\* A discount that takes every value for an amount of money.
DiscountOf_ValueAlways(original_price, offer) == offer.discount_value

\* The discount amount of one offer on a price.
DiscountOf(original_price, offer) ==
    IF offer.discount_type = "PERCENTAGE"
    THEN (original_price * offer.discount_value) \div 100
    ELSE offer.discount_value

\* The loop with >= for >: of equal discounts the last one wins.
RECURSIVE BestOffer_LastWins(_, _, _, _, _)
BestOffer_LastWins(original_price, offs, i, best, best_discount) ==
    IF i > Len(offs) THEN best
    ELSE IF DiscountOf(original_price, offs[i]) >= best_discount
         THEN BestOffer_LastWins(original_price, offs, i + 1, i,
                                 DiscountOf(original_price, offs[i]))
         ELSE BestOffer_LastWins(original_price, offs, i + 1, best, best_discount)

\* The loop over the offers: the index of best_offer (0 for None) after the
\* offers from index i on, given best_offer and best_discount so far.
RECURSIVE BestOffer(_, _, _, _, _)
BestOffer(original_price, offs, i, best, best_discount) ==
    IF i > Len(offs) THEN best
    ELSE IF DiscountOf(original_price, offs[i]) > best_discount
         THEN BestOffer(original_price, offs, i + 1, i,
                        DiscountOf(original_price, offs[i]))
         ELSE BestOffer(original_price, offs, i + 1, best, best_discount)

\* offer_desc of the chosen offer.
OfferDesc(offer) ==
    offer.offer_name \o ": " \o
    (IF offer.discount_type = "PERCENTAGE"
     THEN Fmt0(offer.discount_value) \o "% off"
     ELSE "Rs " \o Fmt2(offer.discount_value) \o " off")

\* A final price that is not held at zero.
FinalPrice_Unclamped(original_price, best_discount) ==
    original_price - best_discount

\* final_price = max(0.0, original_price - best_discount).
FinalPrice(original_price, best_discount) ==
    Max(0, original_price - best_discount)

\* The function from its loop on: the offers are priced and the best one, if
\* any, is applied.
PriceByBestOffer(original_price, offs) ==
    LET b == BestOffer(original_price, offs, 1, 0, 0)
    IN  IF b # 0
        THEN [price |-> FinalPrice(original_price, DiscountOf(original_price, offs[b])),
              desc  |-> OfferDesc(offs[b])]
        ELSE [price |-> original_price, desc |-> None]

\* An empty offers list that prices the item at nothing.
calculate_discounted_price_EmptyIsFree(original_price, offs) ==
    IF offs = <<>> THEN [price |-> 0, desc |-> None]
    ELSE PriceByBestOffer(original_price, offs)

calculate_discounted_price(original_price, offs) ==
    IF offs = <<>> THEN [price |-> original_price, desc |-> None]
    ELSE PriceByBestOffer(original_price, offs)

-----------------------------------------------------------------------------
(* The cart and the ledger *)

IsRole(u, role) == u \in DOMAIN users /\ users[u].role = role

\* The event loop is free to run a handler: no call hangs and no message box
\* waits for its OK.
Idle == ~hung /\ dialog = None

\* self.cart.get(item_id): the index of the item's line, 0 for None.
CartIndex(c, item_id) ==
    IF \E k \in 1..Len(c) : c[k].item_id = item_id
    THEN CHOOSE k \in 1..Len(c) : c[k].item_id = item_id
    ELSE 0

\* A refresh that takes the line's last price for its original price.
RefreshLine_Compounds(it) ==
    LET r == calculate_discounted_price(it.price,
                                        get_active_offers_for_item(it.item_id))
    IN  [it EXCEPT !.price = r.price, !.original_price = it.price,
                   !.offer_desc = r.desc]

\* The loop body of _refresh_cart for one line: price and offer_desc are
\* resolved again from the line's original_price.
RefreshLine(it) ==
    LET r == calculate_discounted_price(it.original_price,
                                        get_active_offers_for_item(it.item_id))
    IN  [it EXCEPT !.price = r.price, !.offer_desc = r.desc]

\* A refresh that shows every line as it was stored.
RefreshLines_AsStored(c) == c

\* _refresh_cart: every line of the cart is resolved again.
RefreshLines(c) == [k \in 1..Len(c) |-> RefreshLine(c[k])]

\* sum(float(i["price"]) * int(i["qty"]) for i in items), left to right.
RECURSIVE LinesTotal(_)
LinesTotal(items) ==
    IF items = <<>> THEN 0
    ELSE LinesTotal(SubSeq(items, 1, Len(items) - 1))
         + items[Len(items)].price * items[Len(items)].qty

\* A total that prices every line at its original_price.
OrderTotal_Undiscounted(cart_items) ==
    round2(LinesTotal([k \in 1..Len(cart_items) |->
                         [cart_items[k] EXCEPT !.price = cart_items[k].original_price]]))

\* The amount Order.create hands to create_order.
OrderTotal(cart_items) == round2(LinesTotal(cart_items))

\* The tokens some stored order holds.
UsedTokens == {orders[k].token_number : k \in 1..Len(orders)}

\* A token check that takes every candidate.
TokenFree_Unchecked(token) == TRUE

\* A test that lets no candidate through.
TokenFree_Never(token) == FALSE

\* The test of the loop of _generate_unique_token: no order holds the token.
TokenFree(token) == ToString(token) \notin UsedTokens

\* A row whose order_id is not a fresh one.
NewOrder_SameId(user_id, items, total_amount, token) ==
    [order_id |-> 1, user_id |-> user_id, items |-> items,
     total_amount |-> total_amount, token_number |-> ToString(token),
     status |-> "PLACED", timestamp |-> now]

\* The row create_order inserts.
NewOrder(user_id, items, total_amount, token) ==
    [order_id |-> Len(orders) + 1, user_id |-> user_id, items |-> items,
     total_amount |-> total_amount, token_number |-> ToString(token),
     status |-> "PLACED", timestamp |-> now]

\* StudentDashboard._load_menu: the tree shows each price with two decimals.
LoadMenu ==
    /\ Idle /\ IsRole(currentUser, "Student")
    /\ menuTree' = [i \in DOMAIN menu |->
                      [item_name |-> menu[i].item_name, price |-> round2(menu[i].price)]]
    /\ UNCHANGED <<users, currentUser, menu, itemSeq, offers, offerSeq, now,
                   cart, added, filledBy, totalVar, orders, qr, hung, receipts, dialog,
                   callVars>>

\* The cart after _add_to_cart has updated or inserted the line, before the
\* refresh.
CartAfterAdd(sel, qty) ==
    LET original_price == menuTree[sel].price
        r == calculate_discounted_price(original_price,
                                        get_active_offers_for_item(sel))
        k == CartIndex(cart, sel)
    IN  IF k # 0
        THEN [cart EXCEPT ![k] = [@ EXCEPT !.qty = @ + qty,
                                           !.price = r.price,
                                           !.original_price = original_price,
                                           !.offer_desc = r.desc]]
        ELSE Append(cart, [item_id |-> sel,
                           item_name |-> menuTree[sel].item_name,
                           price |-> r.price,
                           original_price |-> original_price,
                           offer_desc |-> r.desc,
                           qty |-> qty])

\* StudentDashboard._add_to_cart, with the _refresh_cart that ends it.
\* cap bounds the quantity of a line.
AddToCart(sel, qty, cap) ==
    /\ Idle /\ IsRole(currentUser, "Student")
    /\ sel \in DOMAIN menuTree
    /\ (IF sel \in DOMAIN added THEN added[sel] ELSE 0) + qty <= cap
    /\ cart' = RefreshLines(CartAfterAdd(sel, qty))
    /\ totalVar' = round2(LinesTotal(cart'))
    /\ added' = [i \in DOMAIN added \cup {sel} |->
                   (IF i \in DOMAIN added THEN added[i] ELSE 0)
                   + (IF i = sel THEN qty ELSE 0)]
    /\ filledBy' = filledBy \cup {currentUser}
    /\ UNCHANGED <<users, currentUser, menu, itemSeq, menuTree, offers, offerSeq,
                   now, orders, qr, hung, receipts, dialog, callVars>>

\* A clear that leaves the lines in the cart.
ClearedCart_Kept(c) == c

\* self.cart.clear()
ClearedCart(c) == <<>>

\* StudentDashboard._clear_cart, with its _refresh_cart.
ClearCart ==
    /\ Idle /\ IsRole(currentUser, "Student")
    /\ cart' = RefreshLines(ClearedCart(cart))
    /\ added' = <<>>
    /\ filledBy' = {}
    /\ totalVar' = round2(LinesTotal(cart'))
    /\ UNCHANGED <<users, currentUser, menu, itemSeq, menuTree, offers, offerSeq,
                   now, orders, qr, hung, receipts, dialog, callVars>>

\* StudentDashboard._checkout: Order.create, create_order with the token
\* loop, the payment modal, then _clear_cart.  With every token in use the
\* token loop never ends.
Checkout ==
    /\ Idle /\ IsRole(currentUser, "Student")
    /\ cart # <<>>
    /\ IF \A token \in Tokens : ~TokenFree(token)
       THEN /\ hung' = TRUE
            /\ UNCHANGED <<cart, added, filledBy, totalVar, orders, qr>>
       ELSE /\ \E token \in Tokens :
                 /\ TokenFree(token)
                 /\ LET row == NewOrder(currentUser, cart, OrderTotal(cart), token)
                    IN  /\ orders' = Append(orders, row)
                        /\ qr' = <<row.order_id, totalVar>>
            /\ cart' = RefreshLines(ClearedCart(cart))
            /\ added' = <<>>
            /\ filledBy' = {}
            /\ totalVar' = round2(LinesTotal(cart'))
            /\ UNCHANGED hung
    /\ UNCHANGED <<users, currentUser, menu, itemSeq, menuTree, offers, offerSeq,
                   now, receipts, dialog, callVars>>

\* DatabaseHandler.list_orders_for_user: the user's orders, ORDER BY
\* order_id DESC.
RECURSIVE SelectOrdersDesc(_, _, _)
SelectOrdersDesc(tbl, user_id, k) ==
    IF k = 0 THEN <<>>
    ELSE (IF tbl[k].user_id = user_id THEN <<tbl[k]>> ELSE <<>>)
         \o SelectOrdersDesc(tbl, user_id, k - 1)

list_orders_for_user(user_id) == SelectOrdersDesc(orders, user_id, Len(orders))

\* The first order of a list with the given order_id, <<>> for None.
RECURSIVE FindOrder(_, _)
FindOrder(rows, order_id) ==
    IF rows = <<>> THEN <<>>
    ELSE IF Head(rows).order_id = order_id THEN <<Head(rows)>>
    ELSE FindOrder(Tail(rows), order_id)

\* A status check that lets every order through.
ReceiptAllowed_Always(order_data) == TRUE

\* The status check of _download_receipt.
ReceiptAllowed(order_data) == order_data.status = "COMPLETED"

\* StudentDashboard._download_receipt on the selected row of the student's
\* orders tree, with reportlab installed: an order that is not completed is
\* refused with the warning "Order Not Completed"; otherwise
\* generate_receipt_pdf is given the order as list_orders_for_user returns it.
DownloadReceipt(sel) ==
    /\ Idle /\ IsRole(currentUser, "Student")
    /\ LET found == FindOrder(list_orders_for_user(currentUser), sel)
       IN  /\ found # <<>>
           /\ IF ReceiptAllowed(found[1])
              THEN /\ receipts' = receipts \cup {found[1]}
                   /\ UNCHANGED dialog
              ELSE /\ dialog' = "Order Not Completed"
                   /\ UNCHANGED receipts
    /\ UNCHANGED <<users, currentUser, menu, itemSeq, menuTree, offers, offerSeq,
                   now, cart, added, filledBy, totalVar, orders, qr, hung, callVars>>

\* An UPDATE without its WHERE clause.
SetStatus_EveryRow(tbl, order_id, status) ==
    [k \in 1..Len(tbl) |-> [tbl[k] EXCEPT !.status = status]]

\* An UPDATE that only moves an order forward: PLACED, READY, COMPLETED.
SetStatus_ForwardOnly(tbl, order_id, status) ==
    [k \in 1..Len(tbl) |->
        IF /\ tbl[k].order_id = order_id
           /\ \/ tbl[k].status = "PLACED" /\ status # "PLACED"
              \/ tbl[k].status = "READY" /\ status = "COMPLETED"
        THEN [tbl[k] EXCEPT !.status = status]
        ELSE tbl[k]]

\* DatabaseHandler.update_order_status.
SetStatus(tbl, order_id, status) ==
    [k \in 1..Len(tbl) |->
        IF tbl[k].order_id = order_id THEN [tbl[k] EXCEPT !.status = status]
        ELSE tbl[k]]

\* AttendantDashboard._update_status on the selected row of the orders tree
\* (the Ready and the Completed button).
UpdateStatus(sel, status) ==
    /\ Idle /\ IsRole(currentUser, "Attendant")
    /\ sel \in 1..Len(orders)
    /\ orders' = SetStatus(orders, sel, status)
    /\ UNCHANGED <<users, currentUser, menu, itemSeq, menuTree, offers, offerSeq,
                   now, cart, added, filledBy, totalVar, qr, hung, receipts, dialog,
                   callVars>>

-----------------------------------------------------------------------------
(* Session *)

\* LoginWindow._login and CanteenApp.set_user: the login window is shown
\* only while nobody is logged in.
Login(u) ==
    /\ Idle /\ currentUser = NoUser
    /\ u \in DOMAIN users
    /\ currentUser' = u
    /\ UNCHANGED <<users, menu, itemSeq, menuTree, offers, offerSeq, now,
                   cart, added, filledBy, totalVar, orders, qr, hung, receipts, dialog,
                   callVars>>

\* CanteenApp._logout.
Logout ==
    /\ Idle /\ currentUser # NoUser
    /\ currentUser' = NoUser
    /\ UNCHANGED <<users, menu, itemSeq, menuTree, offers, offerSeq, now,
                   cart, added, filledBy, totalVar, orders, qr, hung, receipts, dialog,
                   callVars>>

\* The user presses OK in the message box.
Dismiss ==
    /\ dialog # None
    /\ dialog' = None
    /\ UNCHANGED <<users, currentUser, menu, itemSeq, menuTree, offers, offerSeq,
                   now, cart, added, filledBy, totalVar, orders, qr, hung, receipts, callVars>>

\* Midnight passes.
Tick ==
    /\ Idle /\ now < LastDay
    /\ now' = now + 1
    /\ UNCHANGED <<users, currentUser, menu, itemSeq, menuTree, offers, offerSeq,
                   cart, added, filledBy, totalVar, orders, qr, hung, receipts, dialog,
                   callVars>>

-----------------------------------------------------------------------------
(* The attendant's menu actions.  The attendant's menu tree is reloaded on   *)
(* show and after every change, so its rows are the rows of table menu, each *)
(* price shown with two decimals.                                            *)

\* A menu table without the UNIQUE constraint on item_name.
NameTaken_Never(item_name) == FALSE

\* The UNIQUE constraint of menu.item_name: some row has the name.
NameTaken(item_name) == \E i \in DOMAIN menu : menu[i].item_name = item_name

\* DatabaseHandler.update_menu_item.
MenuUpdated(item_id, item_name, price, available) ==
    [i \in DOMAIN menu |->
        IF i = item_id
        THEN [item_name |-> item_name, price |-> price, available |-> available]
        ELSE menu[i]]

\* AttendantDashboard._add_menu: a taken name raises IntegrityError, the
\* menu stays as it is and the error box "Exists" is shown.
AddMenu(name, price, avail) ==
    /\ Idle /\ IsRole(currentUser, "Attendant")
    /\ name # ""
    /\ IF NameTaken(name)
       THEN /\ dialog' = "Exists"
            /\ UNCHANGED <<menu, itemSeq>>
       ELSE /\ itemSeq < MaxItemId
            /\ menu' = [i \in DOMAIN menu \cup {itemSeq + 1} |->
                          IF i = itemSeq + 1
                          THEN [item_name |-> name, price |-> price, available |-> avail]
                          ELSE menu[i]]
            /\ itemSeq' = itemSeq + 1
            /\ UNCHANGED dialog
    /\ UNCHANGED <<users, currentUser, menuTree, offers, offerSeq, now,
                   cart, added, filledBy, totalVar, orders, qr, hung, receipts, callVars>>

\* AttendantDashboard._update_item: a negative price is refused.
UpdateItem(sel, new_price, new_avail) ==
    /\ Idle /\ IsRole(currentUser, "Attendant")
    /\ sel \in DOMAIN menu
    /\ new_price >= 0
    /\ menu' = MenuUpdated(sel, menu[sel].item_name, new_price, new_avail)
    /\ UNCHANGED <<users, currentUser, itemSeq, menuTree, offers, offerSeq, now,
                   cart, added, filledBy, totalVar, orders, qr, hung, receipts, dialog,
                   callVars>>

\* AttendantDashboard._update_price: a negative price is refused.
UpdatePrice(sel, new_price) ==
    /\ Idle /\ IsRole(currentUser, "Attendant")
    /\ sel \in DOMAIN menu
    /\ new_price >= 0
    /\ menu' = MenuUpdated(sel, menu[sel].item_name, new_price, menu[sel].available)
    /\ UNCHANGED <<users, currentUser, itemSeq, menuTree, offers, offerSeq, now,
                   cart, added, filledBy, totalVar, orders, qr, hung, receipts, dialog,
                   callVars>>

\* AttendantDashboard._toggle_availability: the price written back is the
\* one the tree shows.
ToggleAvailability(sel) ==
    /\ Idle /\ IsRole(currentUser, "Attendant")
    /\ sel \in DOMAIN menu
    /\ menu' = MenuUpdated(sel, menu[sel].item_name, round2(menu[sel].price),
                           ~menu[sel].available)
    /\ UNCHANGED <<users, currentUser, itemSeq, menuTree, offers, offerSeq, now,
                   cart, added, filledBy, totalVar, orders, qr, hung, receipts, dialog,
                   callVars>>

\* AttendantDashboard._delete_menu, confirmed.
DeleteMenu(sel) ==
    /\ Idle /\ IsRole(currentUser, "Attendant")
    /\ sel \in DOMAIN menu
    /\ menu' = [i \in DOMAIN menu \ {sel} |-> menu[i]]
    /\ UNCHANGED <<users, currentUser, itemSeq, menuTree, offers, offerSeq, now,
                   cart, added, filledBy, totalVar, orders, qr, hung, receipts, dialog,
                   callVars>>

-----------------------------------------------------------------------------
(* The manager's offer actions.  A form is the content of the offer form:    *)
(* [offer_name, item_id, discount_type, discount_value, start_date,          *)
(* end_date, day_of_week, active].                                           *)

\* The checks _add_offer and _update_offer_ui make before they write.
\* A form check that lets every form through.
FormAccepted_Any(f) == TRUE

FormAccepted(f) ==
    /\ f.offer_name # ""
    /\ f.discount_value >= 0
    /\ ~(f.discount_type = "PERCENTAGE" /\ f.discount_value > 100)

\* The box shown for a form that is not accepted: a warning for a missing
\* name, an error for a discount value out of range.
Refusal(f) == IF f.offer_name = "" THEN "Missing" ELSE "Invalid Value"

OfferRow(offer_id, f) ==
    [offer_id |-> offer_id, offer_name |-> f.offer_name, item_id |-> f.item_id,
     discount_type |-> f.discount_type, discount_value |-> f.discount_value,
     start_date |-> f.start_date, end_date |-> f.end_date,
     day_of_week |-> f.day_of_week, active |-> f.active]

\* ManagerDashboard._add_offer and DatabaseHandler.create_offer.
AddOffer(f) ==
    /\ Idle /\ IsRole(currentUser, "Manager")
    /\ IF FormAccepted(f)
       THEN /\ offerSeq < MaxOfferId
            /\ offers' = [i \in DOMAIN offers \cup {offerSeq + 1} |->
                            IF i = offerSeq + 1 THEN OfferRow(i, f) ELSE offers[i]]
            /\ offerSeq' = offerSeq + 1
            /\ UNCHANGED dialog
       ELSE /\ dialog' = Refusal(f)
            /\ UNCHANGED <<offers, offerSeq>>
    /\ UNCHANGED <<users, currentUser, menu, itemSeq, menuTree, now,
                   cart, added, filledBy, totalVar, orders, qr, hung, receipts,
                   callVars>>

\* ManagerDashboard._update_offer_ui and DatabaseHandler.update_offer.
UpdateOffer(sel, f) ==
    /\ Idle /\ IsRole(currentUser, "Manager")
    /\ sel \in DOMAIN offers
    /\ IF FormAccepted(f)
       THEN /\ offers' = [offers EXCEPT ![sel] = OfferRow(sel, f)]
            /\ UNCHANGED dialog
       ELSE /\ dialog' = Refusal(f)
            /\ UNCHANGED offers
    /\ UNCHANGED <<users, currentUser, menu, itemSeq, menuTree, offerSeq, now,
                   cart, added, filledBy, totalVar, orders, qr, hung, receipts,
                   callVars>>

\* ManagerDashboard._delete_offer_ui, confirmed, and DatabaseHandler.delete_offer.
DeleteOffer(sel) ==
    /\ Idle /\ IsRole(currentUser, "Manager")
    /\ sel \in DOMAIN offers
    /\ offers' = [i \in DOMAIN offers \ {sel} |-> offers[i]]
    /\ UNCHANGED <<users, currentUser, menu, itemSeq, menuTree, offerSeq, now,
                   cart, added, filledBy, totalVar, orders, qr, hung, receipts, dialog,
                   callVars>>

-----------------------------------------------------------------------------
(* The application *)

\* The buttons of the attendant's orders panel.
StatusButtons == {"READY", "COMPLETED"}

Tea == [item_name |-> "Tea", price |-> 10 * Rupee, available |-> TRUE]
MasalaDosa == [item_name |-> "Masala Dosa", price |-> 50 * Rupee, available |-> TRUE]

\* An offer form with no date window and no day of the week.
Form(name, item_id, type, value, active) ==
    [offer_name |-> name, item_id |-> item_id, discount_type |-> type,
     discount_value |-> value, start_date |-> NoDate, end_date |-> NoDate,
     day_of_week |-> None, active |-> active]

\* The store of an earlier run (three registered users; of the seven seeded
\* menu items those of seed are left) and the application as constructed on
\* it: the student's menu tree is loaded, the cart is empty.
InitApp(seed) ==
    /\ users = ("s1" :> [name |-> "Asha", role |-> "Student"])
            @@ ("a1" :> [name |-> "Ravi", role |-> "Attendant"])
            @@ ("m1" :> [name |-> "Meena", role |-> "Manager"])
    /\ currentUser = NoUser
    /\ menu = seed
    /\ itemSeq = 7
    /\ menuTree = [i \in DOMAIN seed |->
                     [item_name |-> seed[i].item_name, price |-> round2(seed[i].price)]]
    /\ offers = <<>>
    /\ offerSeq = 0
    /\ now = 9
    /\ cart = <<>>
    /\ added = <<>>
    /\ filledBy = {}
    /\ totalVar = 0
    /\ orders = <<>>
    /\ qr = NoQr
    /\ hung = FALSE
    /\ receipts = {}
    /\ dialog = None

\* No call of Order.create on its own is under way.
InitTotals ==
    /\ ocItems = <<>>
    /\ ocOther = <<>>
    /\ ocResult = <<>>

\* No call of create_order followed step by step is under way.
InitTokens ==
    /\ coArgs = <<>>
    /\ coPc = "idle"
    /\ coToken = TokenMin
    /\ coOther = [args |-> <<>>, pc |-> "idle", token |-> TokenMin]
    /\ dbOutcome = <<>>

\* No call of a function on its own is under way.
InitCalls ==
    /\ cdpPrice = 0
    /\ cdpOffers = <<>>
    /\ cdpResult = <<>>
    /\ InitTotals
    /\ InitTokens

Session ==
    \/ \E u \in DOMAIN users : Login(u)
    \/ Logout

-----------------------------------------------------------------------------
(* The ledger: orders are placed and served while the staff changes the menu *)
(* and the offers.                                                           *)

LedgerPrices == {1011 * Cent}
LedgerNames == {"Tea"}
LedgerForms == {Form("Deal", NoItem, "PERCENTAGE", 20, TRUE),
                Form("Deal", 6, "PERCENTAGE", 20, FALSE)}

Init == InitApp(6 :> Tea) /\ InitCalls

Next ==
    \/ Session
    \/ LoadMenu
    \/ \E sel \in DOMAIN menuTree, qty \in 1..LedgerMaxQty :
          AddToCart(sel, qty, LedgerMaxQty)
    \/ ClearCart
    \/ Checkout
    \/ \E sel \in 1..Len(orders), status \in StatusButtons : UpdateStatus(sel, status)
    \/ \E name \in LedgerNames, price \in LedgerPrices : AddMenu(name, price, TRUE)
    \/ \E sel \in DOMAIN menu, price \in LedgerPrices : UpdatePrice(sel, price)
    \/ \E sel \in DOMAIN menu : DeleteMenu(sel)
    \/ \E f \in LedgerForms : AddOffer(f)
    \/ \E sel \in DOMAIN offers, f \in LedgerForms : UpdateOffer(sel, f)
    \/ \E sel \in DOMAIN offers : DeleteOffer(sel)
    \/ Dismiss

Spec == Init /\ [][Next]_vars

-----------------------------------------------------------------------------
(* Properties of the ledger *)

OrderIds == 1..Len(orders)

\* The sum of price x qty over recorded lines.
RECURSIVE SumOfLines(_)
SumOfLines(lines) ==
    IF lines = <<>> THEN 0
    ELSE Head(lines).price * Head(lines).qty + SumOfLines(Tail(lines))

StatusRank(status) ==
    CASE status = "PLACED" -> 1
      [] status = "READY" -> 2
      [] status = "COMPLETED" -> 3

\* C1: in every reachable state no two stored orders have the same
\* token_number.
C1_TokensUnique ==
    \A i, j \in OrderIds :
        i # j => orders[i].token_number # orders[j].token_number

\* Two orders are stored, each with a token of its own.
C1_Witness ==
    /\ Len(orders) >= 2
    /\ Cardinality(UsedTokens) >= 2

\* C2: an order's status only moves forward along PLACED -> READY ->
\* COMPLETED; no step takes an order back, and COMPLETED is terminal.
C2_StatusOnlyForward ==
    [][\A k \in OrderIds :
          StatusRank(orders'[k].status) >= StatusRank(orders[k].status)]_vars

\* C3: every stored order's total_amount is the sum of price x qty over its
\* recorded lines, rounded to two decimals, whatever has since happened to
\* the menu, the offers and the order's status.
C3_TotalIsSumOfLines ==
    \A k \in OrderIds :
        orders[k].total_amount = round2(SumOfLines(orders[k].items))

\* A served order whose total was rounded, after the item it names left the
\* menu and the offer that priced it was deleted.
C3_Witness ==
    \E k \in OrderIds :
        /\ orders[k].status = "COMPLETED"
        /\ SumOfLines(orders[k].items) % Cent # 0
        /\ orders[k].items[1].price # orders[k].items[1].original_price
        /\ orders[k].items[1].item_id \notin DOMAIN menu
        /\ offerSeq > 0 /\ DOMAIN offers = {}

\* The columns of an order other than status.
Fixed(o) == <<o.order_id, o.user_id, o.items, o.total_amount,
              o.token_number, o.timestamp>>

\* C4: a stored order's items, total_amount, token_number, timestamp and
\* user_id never change; a step changes the status of at most one order; a
\* step that changes the menu or the offers changes no order.
C4_OrdersFrame ==
    [][/\ Len(orders') >= Len(orders)
       /\ \A k \in OrderIds : Fixed(orders'[k]) = Fixed(orders[k])
       /\ Cardinality({k \in OrderIds : orders'[k].status # orders[k].status}) <= 1
       /\ (menu' # menu \/ itemSeq' # itemSeq \/ offers' # offers
           \/ offerSeq' # offerSeq) => orders' = orders]_vars

\* Of two orders one was made ready and the other was not, and since the
\* first order the menu lost its item and an offer was stored.
C4_Witness ==
    /\ Len(orders) >= 2
    /\ orders[1].status = "READY" /\ orders[2].status = "PLACED"
    /\ orders[1].items[1].item_id \notin DOMAIN menu
    /\ DOMAIN offers # {}

\* C5: a step that stores an order stores exactly one, with status PLACED and
\* an order_id no earlier order has, and hands that id to the caller; any two
\* stored orders differ in order_id and in token_number.
C5_CreateAddsOneFreshOrder ==
    [][Len(orders') # Len(orders) =>
          /\ Len(orders') = Len(orders) + 1
          /\ SubSeq(orders', 1, Len(orders)) = orders
          /\ orders'[Len(orders')].status = "PLACED"
          /\ \A k \in OrderIds : orders[k].order_id # orders'[Len(orders')].order_id
          /\ qr'[1] = orders'[Len(orders')].order_id
          /\ \A i, j \in 1..Len(orders') :
                i # j => /\ orders'[i].order_id # orders'[j].order_id
                         /\ orders'[i].token_number # orders'[j].token_number]_vars

\* Two orders were placed with identical carts by the same user.
C5_Witness ==
    \E i, j \in OrderIds :
        /\ i # j
        /\ orders[i].items = orders[j].items
        /\ orders[i].user_id = orders[j].user_id
        /\ orders[i].order_id # orders[j].order_id

-----------------------------------------------------------------------------
(* calculate_discounted_price on its own: one call with a price and a list   *)
(* of offer dictionaries.                                                    *)

\* An offer dictionary as get_active_offers_for_item builds it.
Offer(offer_id, name, type, value) ==
    [offer_id |-> offer_id, offer_name |-> name, item_id |-> NoItem,
     discount_type |-> type, discount_value |-> value,
     start_date |-> NoDate, end_date |-> NoDate, day_of_week |-> None]

CallOffers ==
    { Offer(1, "Deal", "PERCENTAGE", 20),
      Offer(2, "Happy Hour", "FIXED", 2 * Rupee),
      Offer(3, "Big", "FIXED", 60 * Rupee),
      Offer(4, "Nil", "FIXED", 0),
      Offer(5, "Free", "PERCENTAGE", 100) }

CallPrices == {0, 10 * Rupee, 1011 * Cent, 50 * Rupee}

\* The lists of at most n offers.
OfferLists(n) == UNION {[1..k -> CallOffers] : k \in 0..n}

InitPrice ==
    /\ InitApp(6 :> Tea)
    /\ cdpPrice \in CallPrices
    /\ cdpOffers \in OfferLists(MaxOffersLen)
    /\ cdpResult = <<>>
    /\ InitTotals
    /\ InitTokens

\* The call returns.
CallPrice ==
    /\ cdpResult = <<>>
    /\ cdpResult' = <<calculate_discounted_price(cdpPrice, cdpOffers)>>
    /\ UNCHANGED <<appVars, cdpPrice, cdpOffers, ocItems, ocOther, ocResult,
                   tokenVars, dbOutcome>>

NextPrice == CallPrice

SpecPrice == InitPrice /\ [][NextPrice]_vars

Returned == cdpResult # <<>>

\* The discount amount of an offer: price x value / 100 for PERCENTAGE, the
\* value for FIXED.
Amount(p, o) ==
    IF o.discount_type = "PERCENTAGE" THEN (p * o.discount_value) \div 100
    ELSE o.discount_value

\* The largest discount amount of a non-empty list, and the earliest offer
\* that has it.
MaxAmount(p, offs) ==
    CHOOSE a \in {Amount(p, offs[k]) : k \in 1..Len(offs)} :
        \A k \in 1..Len(offs) : Amount(p, offs[k]) <= a

FirstMax(p, offs) ==
    CHOOSE k \in 1..Len(offs) :
        /\ Amount(p, offs[k]) = MaxAmount(p, offs)
        /\ \A j \in 1..(k - 1) : Amount(p, offs[j]) # MaxAmount(p, offs)

\* '<name>: <value>% off' for PERCENTAGE, '<name>: Rs <value> off' for FIXED.
Names(o) ==
    IF o.discount_type = "PERCENTAGE"
    THEN o.offer_name \o ": " \o Fmt0(o.discount_value) \o "% off"
    ELSE o.offer_name \o ": Rs " \o Fmt2(o.discount_value) \o " off"

\* The item is priced by the earliest offer of maximal amount alone, and the
\* description names that offer.
PricedByFirstMax ==
    /\ cdpResult[1].price =
          Max(0, cdpPrice - Amount(cdpPrice, cdpOffers[FirstMax(cdpPrice, cdpOffers)]))
    /\ cdpResult[1].desc = Names(cdpOffers[FirstMax(cdpPrice, cdpOffers)])

\* C6 as stated: for every non-empty list of offers the item is priced by the
\* earliest offer of maximal discount amount and the description names it.
C6_AlwaysPricedByFirstMax ==
    (Returned /\ cdpOffers # <<>>) => PricedByFirstMax

\* C6 as amended: for every non-empty list of offers of which one has a
\* discount amount above zero, the item is priced by the earliest offer of
\* maximal amount alone and the description names it; when no offer has an
\* amount above zero, the original price and no description are returned.
C6_PricedByFirstMaxIfPositive ==
    (Returned /\ cdpOffers # <<>>) =>
        IF MaxAmount(cdpPrice, cdpOffers) > 0
        THEN PricedByFirstMax
        ELSE cdpResult[1] = [price |-> cdpPrice, desc |-> None]

\* Two different offers with the same amount above zero, the first of them
\* named by the description.
C6_Witness ==
    /\ Returned /\ Len(cdpOffers) = 2
    /\ cdpOffers[1] # cdpOffers[2]
    /\ Amount(cdpPrice, cdpOffers[1]) = Amount(cdpPrice, cdpOffers[2])
    /\ Amount(cdpPrice, cdpOffers[1]) > 0
    /\ cdpResult[1].desc = Names(cdpOffers[1])
    /\ cdpResult[1].price = cdpPrice - Amount(cdpPrice, cdpOffers[1])

\* C7: with an empty offers list the call returns the original price
\* unchanged and no description, for every original price.
C7_NoOffersNoDiscount ==
    (Returned /\ cdpOffers = <<>>) =>
        cdpResult[1] = [price |-> cdpPrice, desc |-> None]

\* A call with no offers and a price other than zero has returned.
C7_Witness ==
    /\ Returned /\ cdpOffers = <<>>
    /\ cdpPrice > 0
    /\ cdpResult[1].price = cdpPrice

\* The amount of the offer the call selected: none when no amount is above
\* zero.
SelectedAmount ==
    IF cdpOffers # <<>> /\ MaxAmount(cdpPrice, cdpOffers) > 0
    THEN MaxAmount(cdpPrice, cdpOffers) ELSE 0

\* C8: for an original price >= 0 and discount values >= 0 the final price is
\* max(0, original_price - amount of the selected offer); it is never below
\* zero and never above the original price.
C8_FinalPriceClamped ==
    (/\ Returned /\ cdpPrice >= 0
     /\ \A k \in 1..Len(cdpOffers) : cdpOffers[k].discount_value >= 0) =>
        /\ cdpResult[1].price = Max(0, cdpPrice - SelectedAmount)
        /\ cdpResult[1].price >= 0
        /\ cdpResult[1].price <= cdpPrice

\* A FIXED discount larger than the price has given the price zero.
C8_Witness ==
    /\ Returned /\ cdpPrice > 0
    /\ \E k \in 1..Len(cdpOffers) :
          /\ cdpOffers[k].discount_type = "FIXED"
          /\ cdpOffers[k].discount_value > cdpPrice
    /\ cdpResult[1].price = 0

-----------------------------------------------------------------------------
(* Offer resolution while the manager edits the offers and the days pass.    *)
(* The date fields of the offer form are free text: the manager types a day  *)
(* with or without its leading zero.                                         *)

DateTexts == {NoDate, <<0, 9>>, <<9>>, <<1, 0>>}

WindowForms ==
    { [offer_name |-> "Deal", item_id |-> i, discount_type |-> "PERCENTAGE",
       discount_value |-> 20, start_date |-> sd, end_date |-> ed,
       day_of_week |-> dw, active |-> a] :
      i \in {NoItem, 6}, sd \in DateTexts, ed \in DateTexts,
      dw \in {None, "MON", "TUE"}, a \in BOOLEAN }

InitOffers == InitApp((1 :> MasalaDosa) @@ (6 :> Tea)) /\ InitCalls

NextOffers ==
    \/ Session
    \/ Tick
    \/ \E f \in WindowForms : AddOffer(f)
    \/ \E sel \in DOMAIN offers, f \in WindowForms : UpdateOffer(sel, f)
    \/ \E sel \in DOMAIN offers : DeleteOffer(sel)

SpecOffers == InitOffers /\ [][NextOffers]_vars

\* The day a date text names.
RECURSIVE DayOf(_)
DayOf(text) ==
    IF text = <<>> THEN 0
    ELSE 10 * DayOf(SubSeq(text, 1, Len(text) - 1)) + text[Len(text)]

\* An offer is applicable to an item on a day.
Applicable(o, item_id, day) ==
    /\ o.active
    /\ (o.item_id = NoItem \/ o.item_id = item_id)
    /\ (o.start_date = NoDate \/ DayOf(o.start_date) <= day)
    /\ (o.end_date = NoDate \/ DayOf(o.end_date) >= day)
    /\ (o.day_of_week = None \/ o.day_of_week = Weekday(day))

ReturnedIds(item_id) ==
    {get_active_offers_for_item(item_id)[k].offer_id :
        k \in 1..Len(get_active_offers_for_item(item_id))}

\* C9: get_active_offers_for_item(item) returns exactly the stored offers
\* that are active, are for the item or for all items, have started, have
\* not ended, and are for the day of the week or for every day.
C9_ReturnsExactlyApplicable ==
    \A item_id \in DOMAIN menu :
        ReturnedIds(item_id) =
            {id \in DOMAIN offers : Applicable(offers[id], item_id, now)}

-----------------------------------------------------------------------------
(* The cart: the student fills and clears it while the staff changes prices  *)
(* and offers and the days pass.                                             *)

CartPrices == {1011 * Cent}
CartForms ==
    { Form("Happy Hour", NoItem, "FIXED", 2 * Rupee, TRUE),
      [Form("Deal", 6, "PERCENTAGE", 20, TRUE) EXCEPT !.end_date = <<0, 9>>] }

\* The quantities the student sets in the spin box.
CartQuantities == {1, 2}

InitCart == InitApp((1 :> MasalaDosa) @@ (6 :> Tea)) /\ InitCalls

NextCart ==
    \/ Session
    \/ Tick
    \/ LoadMenu
    \/ \E sel \in DOMAIN menuTree, qty \in CartQuantities : AddToCart(sel, qty, MaxQty)
    \/ ClearCart
    \/ \E sel \in DOMAIN menu, price \in CartPrices, avail \in BOOLEAN :
          UpdateItem(sel, price, avail)
    \/ \E sel \in DOMAIN menu, price \in CartPrices : UpdatePrice(sel, price)
    \/ \E sel \in DOMAIN menu : ToggleAvailability(sel)
    \/ \E f \in CartForms : AddOffer(f)
    \/ \E sel \in DOMAIN offers, f \in CartForms : UpdateOffer(sel, f)
    \/ \E sel \in DOMAIN offers : DeleteOffer(sel)

SpecCart == InitCart /\ [][NextCart]_vars

CartItems(c) == {c[k].item_id : k \in 1..Len(c)}

\* The quantity the history holds for an item.
Added(h, item_id) == IF item_id \in DOMAIN h THEN h[item_id] ELSE 0

\* The line of an item in a cart that holds it.
LineOf(c, item_id) == c[CHOOSE k \in 1..Len(c) : c[k].item_id = item_id]

\* C10: after a step that changes the cart, the cart holds a single line for
\* each item, whose qty is the sum of the quantities added since the cart
\* was last emptied; price and description of every line are those of the
\* best discount on the line's original_price under the offers then
\* applicable; and original_price is the undiscounted price the menu shows
\* for the item when it was last added, which no refresh changes.
C10_CartLines ==
    [][cart' # cart =>
          /\ \A j, k \in 1..Len(cart') :
                j # k => cart'[j].item_id # cart'[k].item_id
          /\ CartItems(cart') = DOMAIN added'
          /\ \A k \in 1..Len(cart') :
                /\ cart'[k].qty = added'[cart'[k].item_id]
                /\ [price |-> cart'[k].price, desc |-> cart'[k].offer_desc] =
                      (calculate_discounted_price(
                           cart[k].original_price,
                           get_active_offers_for_item(cart[k].item_id)))'
                /\ IF Added(added', cart'[k].item_id) # Added(added, cart'[k].item_id)
                   THEN cart'[k].original_price = menuTree[cart'[k].item_id].price
                   ELSE cart'[k].original_price =
                           LineOf(cart, cart'[k].item_id).original_price]_vars

\* An item was added to a cart that held it, next to another line, while an
\* offer lowers its price: its one line has the summed quantity.
C10_Witness ==
    /\ Len(cart) = 2
    /\ \E k \in 1..Len(cart) :
          /\ cart[k].qty = 3
          /\ cart[k].price < cart[k].original_price
          /\ cart[k].price > 0

-----------------------------------------------------------------------------
(* The order desk: the student orders tea by the three while the staff       *)
(* changes its price and the offer on it, one offer stored at a time.        *)

OrderPrices == {1011 * Cent, 50 * Rupee}
OrderForms ==
    { Form("Happy Hour", NoItem, "FIXED", 2 * Rupee, TRUE),
      Form("Big", 6, "FIXED", 60 * Rupee, TRUE),
      Form("Deal", 6, "PERCENTAGE", 20, TRUE) }

\* The quantity the student sets in the spin box.
OrderQuantities == {3}

InitOrder == InitApp(6 :> Tea) /\ InitCalls

NextOrder ==
    \/ Session
    \/ LoadMenu
    \/ \E sel \in DOMAIN menuTree, qty \in OrderQuantities : AddToCart(sel, qty, MaxQty)
    \/ ClearCart
    \/ Checkout
    \/ \E sel \in DOMAIN menu, price \in OrderPrices : UpdatePrice(sel, price)
    \/ \E f \in OrderForms : AddOffer(f)
    \/ \E sel \in DOMAIN offers, f \in OrderForms : UpdateOffer(sel, f)
    \/ \E sel \in DOMAIN offers : DeleteOffer(sel)

SpecOrder == InitOrder /\ [][NextOrder]_vars

\* The unit price of an item of price p under the one offer o: p - p*v/100
\* for PERCENTAGE, max(0, p - v) for FIXED.
UnitPrice(p, o) ==
    IF o.discount_type = "PERCENTAGE" THEN p - (p * o.discount_value) \div 100
    ELSE IF p - o.discount_value > 0 THEN p - o.discount_value ELSE 0

\* The unit price charged on every line of the cart c that has a single
\* applicable offer is the unit price under that offer.
ChargedByTheOffer(c) ==
    \A k \in 1..Len(c) :
        LET offs == get_active_offers_for_item(c[k].item_id)
        IN  Len(offs) = 1 => c[k].price = UnitPrice(c[k].original_price, offs[1])

\* C11 as stated: a line with a single applicable offer is charged the unit
\* price under that offer, and the total shown for a cart of that one line
\* and the total stored for its order are the unit price times the quantity.
C11_TotalIsUnitTimesQty ==
    [][/\ cart' # cart =>
             /\ ChargedByTheOffer(cart)'
             /\ Len(cart') = 1 => totalVar' = cart'[1].price * cart'[1].qty
       /\ (Len(orders') > Len(orders) /\ Len(cart) = 1) =>
             orders'[Len(orders')].total_amount = cart[1].price * cart[1].qty]_vars

\* C11 as amended: a line with a single applicable offer is charged the unit
\* price under that offer, and the total shown for a cart of that one line
\* and the total stored for its order are the unit price times the quantity,
\* rounded to two decimals.
C11_TotalIsUnitTimesQtyRounded ==
    [][/\ cart' # cart =>
             /\ ChargedByTheOffer(cart)'
             /\ Len(cart') = 1 =>
                   totalVar' = round2(cart'[1].price * cart'[1].qty)
       /\ (Len(orders') > Len(orders) /\ Len(cart) = 1) =>
             /\ orders'[Len(orders')].items = cart
             /\ orders'[Len(orders')].total_amount =
                   round2(cart[1].price * cart[1].qty)]_vars

\* Tea at 10 with FIXED 2 and qty 3 was ordered for 24, and then, at 50 with
\* 20%, for 40 apiece.
C11_Witness ==
    /\ Len(orders) = 2
    /\ orders[1].items = <<[item_id |-> 6, item_name |-> "Tea", price |-> 8 * Rupee,
                            original_price |-> 10 * Rupee,
                            offer_desc |-> "Happy Hour: Rs 2.00 off", qty |-> 3]>>
    /\ orders[1].total_amount = 24 * Rupee
    /\ orders[2].items = <<[item_id |-> 6, item_name |-> "Tea", price |-> 40 * Rupee,
                            original_price |-> 50 * Rupee,
                            offer_desc |-> "Deal: 20% off", qty |-> 3]>>
    /\ orders[2].total_amount = 120 * Rupee

-----------------------------------------------------------------------------
(* Order.create in double precision.  A double x >= 0 is the bit sequence,   *)
(* lowest bit first, of the whole number x * 2^FracBits; every double from   *)
(* 0.01 up to 2^(DoubleBits - 1) is such a number.  An amount of money       *)
(* stands for the double nearest to it, which is what float() of its text    *)
(* gives and what repr() of the double shows.  sum() adds left to right, as  *)
(* CPython does up to version 3.11.                                          *)

\* Bits of the significand of a double.
DoubleBits == 53
FracBits == DoubleBits + 7

Bit(n, i) == IF i \in 1..Len(n) THEN n[i] ELSE 0
Zeros(k) == [i \in 1..k |-> 0]

\* The number n times 2^k.
ShiftLeft(n, k) == IF n = <<>> THEN <<>> ELSE Zeros(k) \o n

\* Numbers are handled in chunks of five groups of five bits, which whole
\* numbers of the checker hold with room for a carry.
ChunkBits == 5 * 5

\* The lowest chunk of a number, and the bits above it.
LowBits(n) == SubSeq(n, 1, IF Len(n) < ChunkBits THEN Len(n) ELSE ChunkBits)
HighBits(n) == SubSeq(n, ChunkBits + 1, Len(n))

\* The number without its zero bits at the top.
Trim(n) ==
    IF \A i \in 1..Len(n) : n[i] = 0 THEN <<>>
    ELSE SubSeq(n, 1, CHOOSE i \in 1..Len(n) :
                          n[i] = 1 /\ \A j \in (i + 1)..Len(n) : n[j] = 0)

\* The bits of a whole number below 2^30.
IntBits(x) ==
    LET w == IF x = 0 THEN 0 ELSE CHOOSE k \in 1..30 : 2^(k - 1) <= x /\ x < 2^k
    IN  [i \in 1..w |-> (x \div 2^(i - 1)) % 2]

\* The whole number of five bits from bit k + 1 on, and of a number of at
\* most 25 bits.
FiveBits(n, k) ==
    Bit(n, k + 1) + 2 * Bit(n, k + 2) + 4 * Bit(n, k + 3) + 8 * Bit(n, k + 4)
    + 16 * Bit(n, k + 5)

BitsInt(n) ==
    FiveBits(n, 0) + 32 * (FiveBits(n, 5) + 32 * (FiveBits(n, 10)
        + 32 * (FiveBits(n, 15) + 32 * FiveBits(n, 20))))

\* The exact sum of two numbers and a carry, a chunk at a time.
RECURSIVE AddBits(_, _, _)
AddBits(a, b, c) ==
    IF a = <<>> /\ c = 0 THEN b
    ELSE IF b = <<>> /\ c = 0 THEN a
    ELSE LET s == BitsInt(LowBits(a)) + BitsInt(LowBits(b)) + c
         IN  IF HighBits(a) = <<>> /\ HighBits(b) = <<>> THEN IntBits(s)
             ELSE [i \in 1..ChunkBits |-> (s \div 2^(i - 1)) % 2]
                  \o AddBits(HighBits(a), HighBits(b), s \div 2^ChunkBits)

\* The exact product of a number and a small whole number.
RECURSIVE TimesBits(_, _)
TimesBits(n, q) ==
    IF q = 0 \/ n = <<>> THEN <<>>
    ELSE LET rest == TimesBits(ShiftLeft(n, 1), q \div 2)
         IN  IF q % 2 = 0 THEN rest
             ELSE IF rest = <<>> THEN n ELSE AddBits(n, rest, 0)

\* Round to nearest, ties to even: the double nearest to the number n (plus a
\* fraction of its lowest unit when sticky).
Nearest(n, sticky) ==
    LET d == Len(n) - DoubleBits
    IN  IF n = <<>> \/ d <= 0 THEN n
        ELSE LET kept == SubSeq(n, d + 1, Len(n))
                 low  == sticky \/ \E i \in 1..(d - 1) : n[i] = 1
                 up   == n[d] = 1 /\ (low \/ kept[1] = 1)
             IN  Zeros(d) \o (IF up THEN AddBits(kept, <<1>>, 0) ELSE kept)

\* Long division by Rupee of the remainder r < Rupee, ten bits at a time for
\* k times: the last remainder, then the 10 * k bits of the quotient.
RECURSIVE DivBits(_, _)
DivBits(r, k) ==
    IF k = 0 THEN <<r>>
    ELSE DivBits((r * 1024) % Rupee, k - 1)
         \o [i \in 1..10 |-> (((r * 1024) \div Rupee) \div 2^(i - 1)) % 2]

\* The double an amount of money stands for.
FloatOf(x) ==
    LET d == DivBits(x % Rupee, FracBits \div 10)
    IN  Nearest(Trim(Tail(d) \o IntBits(x \div Rupee)), Head(d) # 0)

\* float(i["price"]) * int(i["qty"])
FloatTimes(a, q) == Nearest(TimesBits(a, q), FALSE)

\* The + of two doubles.
FloatPlus(a, b) == Nearest(AddBits(a, b, 0), FALSE)

\* sum(...) over the lines from line i on, with the sum so far.
RECURSIVE FloatSum(_, _, _)
FloatSum(items, i, total) ==
    IF i > Len(items) THEN total
    ELSE LET x == FloatTimes(FloatOf(items[i].price), items[i].qty)
         IN  IF total = <<>> THEN FloatSum(items, i + 1, x)
             ELSE FloatSum(items, i + 1, FloatPlus(total, x))

\* round(total, 2): the amount with two decimals nearest to the double, an
\* exact tie to the even one.
FloatRound2(a) ==
    IF a = <<>> THEN 0
    ELSE LET m    == AddBits(ShiftLeft(a, 6),
                             AddBits(ShiftLeft(a, 5), ShiftLeft(a, 2), 0), 0)
             c    == IF Len(m) > FracBits
                     THEN BitsInt(SubSeq(m, FracBits + 1, Len(m))) ELSE 0
             low  == \E i \in 1..(FracBits - 1) : Bit(m, i) = 1
             up   == Bit(m, FracBits) = 1 /\ (low \/ c % 2 = 1)
         IN  (IF up THEN c + 1 ELSE c) * Cent

\* Order.create: the total_amount handed to create_order.
FloatOrderTotal(cart_items) == FloatRound2(FloatSum(cart_items, 1, <<>>))

\* Longest list of lines given to Order.create on its own.
MaxLines == 3

\* Cart lines as _add_to_cart leaves them: a bun at 1.00, a rusk at 1.00 less
\* 5%, a toffee at 1.10 less 15%, a biscuit at 0.50 less 5%.
Line(item_id, item_name, original_price, price, offer_desc, qty) ==
    [item_id |-> item_id, item_name |-> item_name, price |-> price,
     original_price |-> original_price, offer_desc |-> offer_desc, qty |-> qty]

TotalLines ==
    { Line(1, "Bun", 1 * Rupee, 1 * Rupee, None, 2),
      Line(2, "Rusk", 1 * Rupee, 95 * Cent, "Five: 5% off", 1),
      Line(3, "Toffee", 110 * Cent, 935 * (Cent \div 10), "Fifteen: 15% off", 1),
      Line(4, "Biscuit", 50 * Cent, 475 * (Cent \div 10), "Five: 5% off", 7) }

\* The lists of at most n lines, no item twice.
TotalLists(n) ==
    {l \in UNION {[1..k -> TotalLines] : k \in 1..n} :
        \A i, j \in 1..Len(l) : i # j => l[i] # l[j]}

\* The list with its lines in another order.
Permuted(l) ==
    {[i \in 1..Len(l) |-> l[p[i]]] :
        p \in {f \in [1..Len(l) -> 1..Len(l)] :
                  \A i, j \in 1..Len(l) : i # j => f[i] # f[j]}}

\* The list with line k replaced by as many lines of quantity 1.
SplitAt(l, k) ==
    SubSeq(l, 1, k - 1)
    \o [i \in 1..l[k].qty |-> [l[k] EXCEPT !.qty = 1]]
    \o SubSeq(l, k + 1, Len(l))

Rearranged(l) == Permuted(l) \cup {SplitAt(l, k) : k \in 1..Len(l)}

InitTotal ==
    /\ InitApp(6 :> Tea)
    /\ cdpPrice = 0 /\ cdpOffers = <<>> /\ cdpResult = <<>>
    /\ ocItems \in TotalLists(MaxLines)
    /\ ocOther \in Rearranged(ocItems)
    /\ ocResult = <<>>
    /\ InitTokens

\* The two calls return.
CallTotal ==
    /\ ocResult = <<>>
    /\ ocResult' = <<FloatOrderTotal(ocItems), FloatOrderTotal(ocOther)>>
    /\ UNCHANGED <<appVars, cdpPrice, cdpOffers, cdpResult, ocItems, ocOther,
                   tokenVars, dbOutcome>>

NextTotal == CallTotal

SpecTotal == InitTotal /\ [][NextTotal]_vars

\* C12: the order total is the same for every permutation of the cart lines,
\* and the same when a line of quantity n is replaced by n lines of quantity
\* 1 of the same item and price.
C12_TotalSameHoweverArranged ==
    ocResult # <<>> => ocResult[1] = ocResult[2]

-----------------------------------------------------------------------------
(* The counter across sessions: students register, log in and out, order    *)
(* tea, the attendant serves the orders and the students ask for receipts.  *)

\* LoginWindow._register and DatabaseHandler.create_user: a user_id that
\* exists is refused.
Register(uid, name, role) ==
    /\ Idle /\ currentUser = NoUser
    /\ uid # "" /\ name # ""
    /\ uid \notin DOMAIN users
    /\ users' = users @@ (uid :> [name |-> name, role |-> role])
    /\ UNCHANGED <<currentUser, menu, itemSeq, menuTree, offers, offerSeq, now,
                   cart, added, filledBy, totalVar, orders, qr, hung, receipts, dialog,
                   callVars>>

\* What the student sets in the quantity box, by the arrows or by typing.
DeskQuantities == {0, 1}

InitDesk == InitApp(6 :> Tea) /\ InitCalls

NextDesk ==
    \/ Session
    \/ Register("s2", "Bina", "Student")
    \/ \E sel \in DOMAIN menuTree, qty \in DeskQuantities : AddToCart(sel, qty, 1)
    \/ ClearCart
    \/ Checkout
    \/ \E sel \in 1..Len(orders), status \in StatusButtons : UpdateStatus(sel, status)
    \/ \E sel \in 1..Len(orders) : DownloadReceipt(sel)
    \/ Dismiss

SpecDesk == InitDesk /\ [][NextDesk]_vars

\* Every stored order that is COMPLETED is listed for its user, as stored.
ListedAsStored ==
    \A k \in 1..Len(orders) :
        orders[k].status = "COMPLETED" =>
            FindOrder(list_orders_for_user(orders[k].user_id), k) = <<orders[k]>>

\* C13: a receipt is generated only for an order of the requesting user whose
\* stored status is COMPLETED at that moment; a request for an order in
\* status PLACED or READY generates nothing and is refused with a warning;
\* an order set to COMPLETED is listed for its user as COMPLETED, and the
\* user's request for its receipt is then carried out.
C13_ReceiptOnlyWhenCompleted ==
    [][/\ \A r \in receipts' \ receipts :
             /\ r.order_id \in 1..Len(orders) /\ orders[r.order_id] = r
             /\ r.status = "COMPLETED"
             /\ r.user_id = currentUser
       /\ \A k \in 1..Len(orders) :
             /\ (DownloadReceipt(k) /\ orders[k].status # "COMPLETED") =>
                   receipts' = receipts /\ dialog' = "Order Not Completed"
             /\ (DownloadReceipt(k) /\ orders[k].status = "COMPLETED") =>
                   orders[k] \in receipts'
       /\ ListedAsStored']_vars

\* A receipt was generated for the student's completed order, and the
\* request for the receipt of the order still PLACED was refused.
C13_Witness ==
    /\ \E r \in receipts : r.order_id = 1 /\ orders[1].status = "COMPLETED"
    /\ Len(orders) = 2 /\ orders[2].status = "PLACED"
    /\ orders[2].user_id = currentUser
    /\ dialog = "Order Not Completed"

-----------------------------------------------------------------------------
(* DatabaseHandler.create_order followed step by step through the loop of   *)
(* _generate_unique_token.                                                  *)

\* The highest token random.randint(1000, 9999) can draw.
TokenMax == 9999

\* The orders create_order is called with: one line of tea.
TeaLine(qty) == Line(6, "Tea", 10 * Rupee, 10 * Rupee, None, qty)

CreateOrderCalls ==
    { <<"s1", <<TeaLine(qty)>>, OrderTotal(<<TeaLine(qty)>>)>> : qty \in 1..MaxQty }

\* create_order is called and enters _generate_unique_token.
BeginCreateOrder(user_id, items, total_amount) ==
    /\ coPc = "idle"
    /\ coArgs' = <<user_id, items, total_amount>>
    /\ coPc' = "draw"
    /\ UNCHANGED <<appVars, cdpPrice, cdpOffers, cdpResult, ocItems, ocOther,
                   ocResult, coToken, coOther,
                   dbOutcome>>

\* token = str(random.randint(1000, 9999))
DrawToken(token) ==
    /\ coPc = "draw"
    /\ coToken' = token
    /\ coPc' = "test"
    /\ UNCHANGED <<appVars, cdpPrice, cdpOffers, cdpResult, ocItems, ocOther,
                   ocResult, coArgs, coOther,
                   dbOutcome>>

\* The SELECT of the loop and its test: the token is returned if no order
\* holds it, else the loop goes round.
TestToken ==
    /\ coPc = "test"
    /\ coPc' = IF TokenFree(coToken) THEN "insert" ELSE "draw"
    /\ UNCHANGED <<appVars, cdpPrice, cdpOffers, cdpResult, ocItems, ocOther,
                   ocResult, coArgs, coToken, coOther,
                   dbOutcome>>

\* The INSERT of create_order, with the token the loop returned.
InsertOrder ==
    /\ coPc = "insert"
    /\ orders' = Append(orders, NewOrder(coArgs[1], coArgs[2], coArgs[3], coToken))
    /\ coArgs' = <<>>
    /\ coPc' = "idle"
    /\ UNCHANGED <<users, currentUser, menu, itemSeq, menuTree, offers, offerSeq,
                   now, cart, added, filledBy, totalVar, qr, hung, receipts, dialog,
                   cdpPrice, cdpOffers, cdpResult, ocItems, ocOther, ocResult,
                   coToken, coOther, dbOutcome>>

InitToken == InitApp(6 :> Tea) /\ InitCalls

NextToken ==
    \/ \E call \in CreateOrderCalls : BeginCreateOrder(call[1], call[2], call[3])
    \/ \E token \in Tokens : DrawToken(token)
    \/ TestToken
    \/ InsertOrder

\* random.randint draws every token again and again; the steps of the call
\* are taken.
SpecTokenFair ==
    /\ InitToken /\ [][NextToken]_vars
    /\ \A token \in Tokens : SF_vars(DrawToken(token))
    /\ WF_vars(TestToken)
    /\ WF_vars(InsertOrder)

\* Some token of the range is held by no stored order.
SomeTokenFree == \E token \in Tokens : ToString(token) \notin UsedTokens

\* C14: a create_order call made while every token is held by a stored order
\* comes to an end (with a Conflict error) and has added no order.
C14_ExhaustionEndsInConflict ==
    \A n \in 0..TokenSpan :
        (coPc = "draw" /\ ~SomeTokenFree /\ Len(orders) = n)
            ~> (coPc = "idle" /\ Len(orders) = n)

\* C15: while some token is free, the token loop returns; the token it
\* returns lies in 1000..9999 and no stored order holds it; a candidate some
\* order holds is not returned, the loop draws again and the store is as it
\* was.
C15_TokenEventuallyReturned ==
    /\ (coPc = "draw" /\ SomeTokenFree) ~> (coPc = "insert")
    /\ [](coPc = "insert" =>
             /\ coToken \in TokenMin..TokenMax
             /\ ToString(coToken) \notin UsedTokens)
    /\ [][(coPc = "test" /\ ToString(coToken) \in UsedTokens) =>
             (coPc' = "draw" /\ orders' = orders)]_vars

\* With one token free, the loop has drawn the token the stored order holds
\* and is about to test it.
C15_Witness ==
    /\ Len(orders) = 1
    /\ SomeTokenFree
    /\ coPc = "test"
    /\ ToString(coToken) = orders[1].token_number

\* The statuses an order can be given.
Statuses == {"PLACED", "READY", "COMPLETED"}

\* C16: update_order_status gives an existing order the requested status
\* whatever status it has, and changes nothing else: from every reachable
\* store, for every order and each of PLACED, READY, COMPLETED, the row has
\* the requested status afterwards and every other field and row is as it
\* was; the Ready and the Completed button do so for the selected order.
C16_StatusOverwritten ==
    /\ [](\A k \in 1..Len(orders), status \in Statuses :
             LET tbl == SetStatus(orders, k, status)
             IN  /\ Len(tbl) = Len(orders)
                 /\ tbl[k] = [orders[k] EXCEPT !.status = status]
                 /\ \A j \in 1..Len(orders) : j # k => tbl[j] = orders[j])
    /\ [][\A k \in 1..Len(orders), status \in StatusButtons :
             UpdateStatus(k, status) => orders'[k].status = status]_vars

\* An order that was COMPLETED when its receipt was made has been set back
\* to READY.
C16_Witness ==
    \E r \in receipts :
        r.status = "COMPLETED" /\ orders[r.order_id].status = "READY"

\* C17: while a student is logged in, the cart holds no line another user
\* added, and an order is created for a user only from lines that user
\* added.
C17_CartOfTheSessionOnly ==
    /\ [](IsRole(currentUser, "Student") => filledBy \subseteq {currentUser})
    /\ [][Len(orders') > Len(orders) =>
             filledBy \subseteq {orders'[Len(orders')].user_id}]_vars

\* C18: a step of Clear, and a checkout that stores its order, leave the
\* cart empty and the displayed total at 0.00; the order a checkout stores
\* holds the items added since the cart was last emptied, each with the
\* quantity added since then, and nothing of an earlier order.
C18_CartEmptiedAfterCheckoutAndClear ==
    [][/\ ClearCart => (cart' = <<>> /\ totalVar' = 0)
       /\ Len(orders') > Len(orders) =>
             LET items == orders'[Len(orders')].items
             IN  /\ cart' = <<>> /\ totalVar' = 0
                 /\ items = cart /\ items # <<>>
                 /\ CartItems(items) = DOMAIN added
                 /\ \A k \in 1..Len(items) :
                       items[k].qty = added[items[k].item_id]]_vars

\* Two orders of three teas were placed one after the other; the second
\* holds three teas, not six, and the cart is empty with a total of 0.00.
C18_Witness ==
    /\ Len(orders) = 2
    /\ orders[1].user_id = orders[2].user_id
    /\ \A n \in 1..2 : Len(orders[n].items) = 1 /\ orders[n].items[1].qty = 3
    /\ cart = <<>> /\ totalVar = 0
    /\ ~hung

\* C19: a step taken with an empty cart, or with nobody logged in, stores no
\* order; every stored order has at least one line, and every line of a
\* stored order has a quantity of at least 1.
C19_OrdersHaveLines ==
    /\ [][(cart = <<>> \/ currentUser = NoUser) => Len(orders') = Len(orders)]_vars
    /\ [](\A n \in 1..Len(orders) :
             /\ orders[n].items # <<>>
             /\ \A k \in 1..Len(orders[n].items) : orders[n].items[k].qty >= 1)

-----------------------------------------------------------------------------
(* The attendant's menu panel on its own.                                   *)

MenuNames == {"Tea", "Bun"}
MenuPrices == {10 * Rupee, 12 * Rupee}

InitMenu == InitApp(6 :> Tea) /\ InitCalls

NextMenu ==
    \/ Session
    \/ \E name \in MenuNames, price \in MenuPrices, avail \in BOOLEAN :
          AddMenu(name, price, avail)
    \/ \E sel \in DOMAIN menu, price \in MenuPrices, avail \in BOOLEAN :
          UpdateItem(sel, price, avail)
    \/ \E sel \in DOMAIN menu, price \in MenuPrices : UpdatePrice(sel, price)
    \/ \E sel \in DOMAIN menu : ToggleAvailability(sel)
    \/ \E sel \in DOMAIN menu : DeleteMenu(sel)
    \/ Dismiss

SpecMenu == InitMenu /\ [][NextMenu]_vars

\* The item_ids of the rows of a menu table that have the name.
IdsOf(tbl, item_name) == {i \in DOMAIN tbl : tbl[i].item_name = item_name}

-----------------------------------------------------------------------------
(* The store on its own: a caller makes DatabaseHandler calls directly, with *)
(* ids that exist and ids that do not.                                       *)

pureVars == <<cdpPrice, cdpOffers, cdpResult, ocItems, ocOther, ocResult, tokenVars>>

\* The call of op returns value; the call of op raises error.
Returns(op, value) == <<op, "returned", value>>
Raises(op, error) == <<op, "raised", error>>

\* A users table without its PRIMARY KEY.
UserExists_Never(user_id) == FALSE

\* The PRIMARY KEY of users.user_id: some row has the user_id.
UserExists(user_id) == user_id \in DOMAIN users

\* DatabaseHandler.create_user: the INSERT raises IntegrityError on a
\* user_id that exists.
DbCreateUser(user_id, name, role) ==
    /\ IF UserExists(user_id)
       THEN /\ dbOutcome' = Raises("create_user", "IntegrityError")
            /\ UNCHANGED users
       ELSE /\ users' = [u \in DOMAIN users \cup {user_id} |->
                           IF u = user_id THEN [name |-> name, role |-> role]
                           ELSE users[u]]
            /\ dbOutcome' = Returns("create_user", None)
    /\ UNCHANGED <<currentUser, menu, itemSeq, menuTree, offers, offerSeq, now,
                   cart, added, filledBy, totalVar, orders, qr, hung, receipts,
                   dialog, pureVars>>

\* DatabaseHandler.create_order, token loop and INSERT together; it returns
\* the new order_id.
DbCreateOrder(user_id, items, total_amount) ==
    /\ ~hung
    /\ IF \A token \in Tokens : ~TokenFree(token)
       THEN /\ hung' = TRUE
            /\ UNCHANGED <<orders, dbOutcome>>
       ELSE /\ \E token \in Tokens :
                 /\ TokenFree(token)
                 /\ orders' = Append(orders, NewOrder(user_id, items, total_amount, token))
            /\ dbOutcome' = Returns("create_order", Len(orders'))
            /\ UNCHANGED hung
    /\ UNCHANGED <<users, currentUser, menu, itemSeq, menuTree, offers, offerSeq,
                   now, cart, added, filledBy, totalVar, qr, receipts, dialog,
                   pureVars>>

\* DatabaseHandler.update_order_status: the UPDATE changes the rows its WHERE
\* finds, none if there is none, and the call returns.
DbUpdateOrderStatus(order_id, status) ==
    /\ ~hung
    /\ orders' = SetStatus(orders, order_id, status)
    /\ dbOutcome' = Returns("update_order_status", None)
    /\ UNCHANGED <<users, currentUser, menu, itemSeq, menuTree, offers, offerSeq,
                   now, cart, added, filledBy, totalVar, qr, hung, receipts, dialog,
                   pureVars>>

\* DatabaseHandler.add_menu_item: IntegrityError on a name some row has.
DbAddMenuItem(item_name, price, available) ==
    /\ ~hung
    /\ IF NameTaken(item_name)
       THEN /\ dbOutcome' = Raises("add_menu_item", "IntegrityError")
            /\ UNCHANGED <<menu, itemSeq>>
       ELSE /\ itemSeq < MaxItemId
            /\ menu' = [i \in DOMAIN menu \cup {itemSeq + 1} |->
                          IF i = itemSeq + 1
                          THEN [item_name |-> item_name, price |-> price,
                                available |-> available]
                          ELSE menu[i]]
            /\ itemSeq' = itemSeq + 1
            /\ dbOutcome' = Returns("add_menu_item", None)
    /\ UNCHANGED <<users, currentUser, menuTree, offers, offerSeq, now,
                   cart, added, filledBy, totalVar, orders, qr, hung, receipts,
                   dialog, pureVars>>

\* DatabaseHandler.update_menu_item: IntegrityError if the row exists and
\* another row has the name; else the rows the WHERE finds are written.
DbUpdateMenuItem(item_id, item_name, price, available) ==
    /\ ~hung
    /\ IF /\ item_id \in DOMAIN menu
          /\ \E i \in DOMAIN menu \ {item_id} : menu[i].item_name = item_name
       THEN /\ dbOutcome' = Raises("update_menu_item", "IntegrityError")
            /\ UNCHANGED menu
       ELSE /\ menu' = MenuUpdated(item_id, item_name, price, available)
            /\ dbOutcome' = Returns("update_menu_item", None)
    /\ UNCHANGED <<users, currentUser, itemSeq, menuTree, offers, offerSeq, now,
                   cart, added, filledBy, totalVar, orders, qr, hung, receipts,
                   dialog, pureVars>>

\* A deletion after which the table hands out ids from its largest id on, as
\* a table without AUTOINCREMENT does.
DbDeleteMenuItem_Rewinds(item_id) ==
    /\ ~hung
    /\ menu' = [i \in DOMAIN menu \ {item_id} |-> menu[i]]
    /\ itemSeq' = IF DOMAIN menu' = {} THEN 0
                  ELSE CHOOSE i \in DOMAIN menu' : \A j \in DOMAIN menu' : j <= i
    /\ dbOutcome' = Returns("delete_menu_item", None)
    /\ UNCHANGED <<users, currentUser, menuTree, offers, offerSeq, now,
                   cart, added, filledBy, totalVar, orders, qr, hung, receipts,
                   dialog, pureVars>>

\* DatabaseHandler.delete_menu_item.
DbDeleteMenuItem(item_id) ==
    /\ ~hung
    /\ menu' = [i \in DOMAIN menu \ {item_id} |-> menu[i]]
    /\ dbOutcome' = Returns("delete_menu_item", None)
    /\ UNCHANGED <<users, currentUser, itemSeq, menuTree, offers, offerSeq, now,
                   cart, added, filledBy, totalVar, orders, qr, hung, receipts,
                   dialog, pureVars>>

\* DatabaseHandler.create_offer; it returns the new offer_id.
DbCreateOffer(f) ==
    /\ ~hung
    /\ offerSeq < MaxOfferId
    /\ offers' = [i \in DOMAIN offers \cup {offerSeq + 1} |->
                    IF i = offerSeq + 1 THEN OfferRow(i, f) ELSE offers[i]]
    /\ offerSeq' = offerSeq + 1
    /\ dbOutcome' = Returns("create_offer", offerSeq')
    /\ UNCHANGED <<users, currentUser, menu, itemSeq, menuTree, now,
                   cart, added, filledBy, totalVar, orders, qr, hung, receipts,
                   dialog, pureVars>>

\* DatabaseHandler.update_offer.
DbUpdateOffer(offer_id, f) ==
    /\ ~hung
    /\ offers' = [i \in DOMAIN offers |->
                    IF i = offer_id THEN OfferRow(i, f) ELSE offers[i]]
    /\ dbOutcome' = Returns("update_offer", None)
    /\ UNCHANGED <<users, currentUser, menu, itemSeq, menuTree, offerSeq, now,
                   cart, added, filledBy, totalVar, orders, qr, hung, receipts,
                   dialog, pureVars>>

\* DatabaseHandler.delete_offer.
DbDeleteOffer(offer_id) ==
    /\ ~hung
    /\ offers' = [i \in DOMAIN offers \ {offer_id} |-> offers[i]]
    /\ dbOutcome' = Returns("delete_offer", None)
    /\ UNCHANGED <<users, currentUser, menu, itemSeq, menuTree, offerSeq, now,
                   cart, added, filledBy, totalVar, orders, qr, hung, receipts,
                   dialog, pureVars>>

\* The arguments the caller uses.
StoreUsers == {<<"s1", "Zed", "Manager">>, <<"s2", "Bina", "Student">>}
StoreAmounts == {10 * Cent, 20 * Cent}
StoreOrders ==
    { <<"s1", <<Line(6, "Tea", p, p, None, 1)>>,
        OrderTotal(<<Line(6, "Tea", p, p, None, 1)>>)>> : p \in StoreAmounts }
StoreOrderIds == 1..(TokenSpan + 1)
StoreItemIds == {6, MaxItemId}
StoreOfferIds == 1..(MaxOfferId + 1)
StoreForms == {Form("Deal", 6, "PERCENTAGE", 20, TRUE),
               Form("Happy Hour", NoItem, "FIXED", 2 * Rupee, TRUE)}

InitStore == InitApp(6 :> Tea) /\ InitCalls

NextStore ==
    \/ \E c \in StoreUsers : DbCreateUser(c[1], c[2], c[3])
    \/ \E c \in StoreOrders : DbCreateOrder(c[1], c[2], c[3])
    \/ \E order_id \in StoreOrderIds, status \in Statuses :
          DbUpdateOrderStatus(order_id, status)
    \/ \E item_name \in MenuNames : DbAddMenuItem(item_name, 12 * Rupee, TRUE)
    \/ \E item_id \in StoreItemIds, item_name \in MenuNames :
          DbUpdateMenuItem(item_id, item_name, 12 * Rupee, TRUE)
    \/ \E item_id \in StoreItemIds : DbDeleteMenuItem(item_id)
    \/ \E f \in StoreForms : DbCreateOffer(f)
    \/ \E offer_id \in StoreOfferIds, f \in StoreForms : DbUpdateOffer(offer_id, f)
    \/ \E offer_id \in StoreOfferIds : DbDeleteOffer(offer_id)

SpecStore == InitStore /\ [][NextStore]_vars

\* C21: a call addressed to an id no row has (update_order_status,
\* update_menu_item, delete_menu_item, update_offer, delete_offer) raises
\* NotFound and leaves the store as it is.
C21_UnknownIdIsNotFound ==
    [][/\ \A order_id \in StoreOrderIds \ (1..Len(orders)), status \in Statuses :
             DbUpdateOrderStatus(order_id, status) =>
                 (/\ dbOutcome' = Raises("update_order_status", "NotFound")
                  /\ orders' = orders)
       /\ \A item_id \in StoreItemIds \ DOMAIN menu :
             /\ DbDeleteMenuItem(item_id) =>
                   (/\ dbOutcome' = Raises("delete_menu_item", "NotFound")
                    /\ menu' = menu)
             /\ \A item_name \in MenuNames :
                   DbUpdateMenuItem(item_id, item_name, 12 * Rupee, TRUE) =>
                       (/\ dbOutcome' = Raises("update_menu_item", "NotFound")
                        /\ menu' = menu)
       /\ \A offer_id \in StoreOfferIds \ DOMAIN offers :
             /\ DbDeleteOffer(offer_id) =>
                   (/\ dbOutcome' = Raises("delete_offer", "NotFound")
                    /\ offers' = offers)
             /\ \A f \in StoreForms :
                   DbUpdateOffer(offer_id, f) =>
                       (/\ dbOutcome' = Raises("update_offer", "NotFound")
                        /\ offers' = offers)]_vars

\* C22: create_user with a user_id some user has raises a conflict
\* (IntegrityError) and leaves the users as they are; a created user is
\* stored with the name and role given, and no step changes the name or the
\* role of a user or removes a user.
C22_UsersUniqueAndImmutable ==
    [][/\ \A c \in StoreUsers :
             DbCreateUser(c[1], c[2], c[3]) =>
                 IF c[1] \in DOMAIN users
                 THEN /\ dbOutcome' = Raises("create_user", "IntegrityError")
                      /\ users' = users
                 ELSE /\ dbOutcome' = Returns("create_user", None)
                      /\ DOMAIN users' = DOMAIN users \cup {c[1]}
                      /\ users'[c[1]] = [name |-> c[2], role |-> c[3]]
       /\ \A u \in DOMAIN users : u \in DOMAIN users' /\ users'[u] = users[u]]_vars

\* Bina was created as s2, and a second create_user for s1, then as Zed the
\* Manager, was refused: s1 is still Asha the Student.
C22_Witness ==
    /\ "s2" \in DOMAIN users
    /\ users["s1"] = [name |-> "Asha", role |-> "Student"]
    /\ dbOutcome = Raises("create_user", "IntegrityError")

-----------------------------------------------------------------------------
(* The reports: orders are created and served over the days, and a caller   *)
(* asks for the order lists and for the revenue per day.  The amounts are   *)
(* the doubles the store holds.                                             *)

\* A SELECT that lists the orders in ascending order_id.
RECURSIVE SelectByStatus_Asc(_, _, _)
SelectByStatus_Asc(tbl, status, k) ==
    IF k = 0 THEN <<>>
    ELSE SelectByStatus_Asc(tbl, status, k - 1)
         \o (IF status = None \/ tbl[k].status = status THEN <<tbl[k]>> ELSE <<>>)

\* The SELECT of list_orders over the first k rows: WHERE status = ? unless
\* status is None, ORDER BY order_id DESC.
RECURSIVE SelectByStatusDesc(_, _, _)
SelectByStatusDesc(tbl, status, k) ==
    IF k = 0 THEN <<>>
    ELSE (IF status = None \/ tbl[k].status = status THEN <<tbl[k]>> ELSE <<>>)
         \o SelectByStatusDesc(tbl, status, k - 1)

list_orders(status) == SelectByStatusDesc(orders, status, Len(orders))

\* A revenue that counts the completed orders only.
RevenueRow_CompletedOnly(o) == o.status = "COMPLETED"

\* The rows the SELECT of revenue_per_day reads: it has no WHERE.
RevenueRow(o) == TRUE

\* The loop of revenue_per_day over the first k rows: the totals, day -> double.
RECURSIVE RevenueUpTo(_, _)
RevenueUpTo(tbl, k) ==
    IF k = 0 THEN <<>>
    ELSE LET totals == RevenueUpTo(tbl, k - 1)
             d      == tbl[k].timestamp
             before == IF d \in DOMAIN totals THEN totals[d] ELSE <<>>
             after  == FloatOf(FloatRound2(FloatPlus(before, FloatOf(tbl[k].total_amount))))
         IN  IF RevenueRow(tbl[k])
             THEN [x \in DOMAIN totals \cup {d} |-> IF x = d THEN after ELSE totals[x]]
             ELSE totals

revenue_per_day == RevenueUpTo(orders, Len(orders))

DbListOrders(status) ==
    /\ ~hung
    /\ dbOutcome' = Returns("list_orders", list_orders(status))
    /\ UNCHANGED <<appVars, pureVars>>

DbListOrdersForUser(user_id) ==
    /\ ~hung
    /\ dbOutcome' = Returns("list_orders_for_user", list_orders_for_user(user_id))
    /\ UNCHANGED <<appVars, pureVars>>

DbRevenuePerDay ==
    /\ ~hung
    /\ dbOutcome' = Returns("revenue_per_day", revenue_per_day)
    /\ UNCHANGED <<appVars, pureVars>>

\* The orders the caller creates: by s1 or s2, one tea at 0.10 or at 0.20.
ReportOrders ==
    { <<u, <<Line(6, "Tea", p, p, None, 1)>>,
        OrderTotal(<<Line(6, "Tea", p, p, None, 1)>>)>> :
      u \in {"s1", "s2"}, p \in StoreAmounts }

InitReport == InitApp(6 :> Tea) /\ InitCalls

NextReport ==
    \/ Tick
    \/ \E c \in ReportOrders : DbCreateOrder(c[1], c[2], c[3])
    \/ \E order_id \in 1..Len(orders), status \in StatusButtons :
          DbUpdateOrderStatus(order_id, status)
    \/ \E status \in Statuses \cup {None} : DbListOrders(status)
    \/ \E user_id \in {"s1", "s2"} : DbListOrdersForUser(user_id)
    \/ DbRevenuePerDay

SpecReport == InitReport /\ [][NextReport]_vars

\* sum(totals.values()): the buckets added up from the first day to day d.
RECURSIVE SumBuckets(_, _)
SumBuckets(totals, d) ==
    IF d \notin Days THEN <<>>
    ELSE IF d \in DOMAIN totals
         THEN FloatPlus(SumBuckets(totals, d - 1), totals[d])
         ELSE SumBuckets(totals, d - 1)

\* sum(o["total_amount"] for o in rows) from row i on, with the sum so far.
RECURSIVE SumAmounts(_, _, _)
SumAmounts(rows, i, total) ==
    IF i > Len(rows) THEN total
    ELSE IF total = <<>> THEN SumAmounts(rows, i + 1, FloatOf(rows[i].total_amount))
    ELSE SumAmounts(rows, i + 1, FloatPlus(total, FloatOf(rows[i].total_amount)))

\* revenue_per_day was the last call, and the store is as it found it.
RevenueReturned == dbOutcome # <<>> /\ dbOutcome[1] = "revenue_per_day"

\* C23 (as stated): the buckets revenue_per_day returns add up to the sum of
\* total_amount over all stored orders.
C23_BucketsSumToGrandTotal ==
    RevenueReturned =>
        SumBuckets(dbOutcome[3], LastDay) = SumAmounts(list_orders(None), 1, <<>>)

\* C23 (amended): the buckets revenue_per_day returns add up, to two
\* decimals, to the sum of total_amount over all stored orders, whatever the
\* status of the orders; every bucket is the sum to two decimals of the
\* orders of its day, and every order's day has a bucket.
C23_BucketsSumToGrandTotalRounded ==
    RevenueReturned =>
        LET totals == dbOutcome[3]
        IN  /\ FloatRound2(SumBuckets(totals, LastDay))
                  = FloatRound2(SumAmounts(list_orders(None), 1, <<>>))
            /\ DOMAIN totals = {orders[k].timestamp : k \in 1..Len(orders)}
            /\ \A d \in DOMAIN totals :
                  FloatRound2(totals[d]) =
                      SumOfLines([k \in 1..Len(orders) |->
                          [price |-> orders[k].total_amount,
                           qty |-> IF orders[k].timestamp = d THEN 1 ELSE 0]])

\* The revenue was asked for with an order of 0.10 placed on day 9 and
\* completed, and an order of 0.20 placed on day 10: two buckets.
C23_Witness ==
    /\ RevenueReturned
    /\ DOMAIN dbOutcome[3] = {9, 10}
    /\ Len(orders) = 2
    /\ orders[1].status = "COMPLETED" /\ orders[2].status = "PLACED"
    /\ orders[1].total_amount = 10 * Cent /\ orders[2].total_amount = 20 * Cent

\* The rows are the stored orders of the given ids, each once, in strictly
\* descending order_id.
ListsExactly(rows, ids) ==
    /\ \A i, j \in 1..Len(rows) : i < j => rows[i].order_id > rows[j].order_id
    /\ {rows[i] : i \in 1..Len(rows)} = {orders[k] : k \in ids}
    /\ Len(rows) = Cardinality(ids)

\* C24: list_orders() returns every stored order once, in strictly
\* descending order_id; list_orders(status) returns the orders whose status
\* is the given one, and list_orders_for_user(u) the orders whose user_id is
\* u, both in descending order_id.
C24_ListsAreExactAndDescending ==
    [][/\ DbListOrders(None) => ListsExactly(dbOutcome'[3], 1..Len(orders))
       /\ \A status \in Statuses :
             DbListOrders(status) =>
                 ListsExactly(dbOutcome'[3],
                              {k \in 1..Len(orders) : orders[k].status = status})
       /\ \A user_id \in {"s1", "s2"} :
             DbListOrdersForUser(user_id) =>
                 ListsExactly(dbOutcome'[3],
                              {k \in 1..Len(orders) : orders[k].user_id = user_id})]_vars

\* With order 1 of s1 READY and order 2 of s2 PLACED, list_orders() has just
\* returned order 2, then order 1.
C24_Witness ==
    /\ Len(orders) = 2
    /\ orders[1].user_id = "s1" /\ orders[1].status = "READY"
    /\ orders[2].user_id = "s2" /\ orders[2].status = "PLACED"
    /\ dbOutcome = Returns("list_orders", <<orders[2], orders[1]>>)

-----------------------------------------------------------------------------
(* Two processes on one store: each follows create_order step by step, the  *)
(* SELECT of the token loop and the INSERT being separate statements on     *)
(* separate connections.                                                    *)

OtherBegin(user_id, items, total_amount) ==
    /\ coOther.pc = "idle"
    /\ coOther' = [coOther EXCEPT !.args = <<user_id, items, total_amount>>,
                                  !.pc = "draw"]
    /\ UNCHANGED <<appVars, cdpPrice, cdpOffers, cdpResult, ocItems, ocOther,
                   ocResult, coArgs, coPc, coToken, dbOutcome>>

OtherDrawToken(token) ==
    /\ coOther.pc = "draw"
    /\ coOther' = [coOther EXCEPT !.token = token, !.pc = "test"]
    /\ UNCHANGED <<appVars, cdpPrice, cdpOffers, cdpResult, ocItems, ocOther,
                   ocResult, coArgs, coPc, coToken, dbOutcome>>

OtherTestToken ==
    /\ coOther.pc = "test"
    /\ coOther' = [coOther EXCEPT
                      !.pc = IF TokenFree(coOther.token) THEN "insert" ELSE "draw"]
    /\ UNCHANGED <<appVars, cdpPrice, cdpOffers, cdpResult, ocItems, ocOther,
                   ocResult, coArgs, coPc, coToken, dbOutcome>>

OtherInsertOrder ==
    /\ coOther.pc = "insert"
    /\ orders' = Append(orders, NewOrder(coOther.args[1], coOther.args[2],
                                         coOther.args[3], coOther.token))
    /\ coOther' = [coOther EXCEPT !.args = <<>>, !.pc = "idle"]
    /\ UNCHANGED <<users, currentUser, menu, itemSeq, menuTree, offers, offerSeq,
                   now, cart, added, filledBy, totalVar, qr, hung, receipts, dialog,
                   cdpPrice, cdpOffers, cdpResult, ocItems, ocOther, ocResult,
                   coArgs, coPc, coToken, dbOutcome>>

InitRace == InitApp(6 :> Tea) /\ InitCalls

NextRace ==
    \/ \E call \in CreateOrderCalls : BeginCreateOrder(call[1], call[2], call[3])
    \/ \E token \in Tokens : DrawToken(token)
    \/ TestToken
    \/ InsertOrder
    \/ \E call \in CreateOrderCalls : OtherBegin(call[1], call[2], call[3])
    \/ \E token \in Tokens : OtherDrawToken(token)
    \/ OtherTestToken
    \/ OtherInsertOrder

SpecRace == InitRace /\ [][NextRace]_vars

\* C25: however the steps of two create_order calls interleave, the stored
\* orders hold as many tokens as there are orders, and every stored row is a
\* whole order with an order_id of its own.
C25_InterleavedCallsKeepTokensApart ==
    /\ Cardinality(UsedTokens) = Len(orders)
    /\ \A k \in 1..Len(orders) :
          orders[k].order_id = k /\ orders[k].status \in Statuses

-----------------------------------------------------------------------------
(* The cart follows the offers: every refresh resolves the lines again       *)

\* The offers of table tbl applicable to an item on a day, in id order.
RECURSIVE ApplicableFrom(_, _, _, _, _)
ApplicableFrom(tbl, seq, item_id, day, i) ==
    IF i > seq THEN <<>>
    ELSE (IF i \in DOMAIN tbl /\ Applicable(tbl[i], item_id, day)
          THEN <<OfferDict(tbl[i])>> ELSE <<>>)
         \o ApplicableFrom(tbl, seq, item_id, day, i + 1)

-----------------------------------------------------------------------------
(* The staff menu panel with any number in the Price field                   *)

\* What float() makes of the Price field: a price below zero, a price.
StaffPrices == {0 - 5 * Rupee, 10 * Rupee, 12 * Rupee}

\* The names typed in the Name field.
StaffNames == {"Tea", "Bun", "Idli"}

NextStaffMenu ==
    \/ Session
    \/ \E name \in StaffNames, price \in StaffPrices, avail \in BOOLEAN :
          AddMenu(name, price, avail)
    \/ \E sel \in DOMAIN menu, price \in StaffPrices, avail \in BOOLEAN :
          UpdateItem(sel, price, avail)
    \/ \E sel \in DOMAIN menu, price \in StaffPrices : UpdatePrice(sel, price)
    \/ \E sel \in DOMAIN menu : ToggleAvailability(sel)
    \/ Dismiss

SpecStaffMenu == InitMenu /\ [][NextStaffMenu]_vars

\* C27: in every state reachable through the staff menu actions (add item,
\* update item, update price, toggle availability) every menu item has
\* price >= 0.
C27_MenuPricesNonNegative ==
    \A i \in DOMAIN menu : menu[i].price >= 0

-----------------------------------------------------------------------------
(* The manager's offer form with any number in the Value field               *)

\* What float() makes of the Value field: a percentage or an amount of
\* rupees, below zero, up to 100 and above 100.
FormValues(type) ==
    IF type = "PERCENTAGE" THEN {0 - 5, 20, 100, 101}
    ELSE {0 - 5 * Rupee, 2 * Rupee, 101 * Rupee}

OfferForms ==
    { Form(name, NoItem, type, value, active) :
        name \in {"Deal"}, type \in {"PERCENTAGE", "FIXED"},
        value \in FormValues("PERCENTAGE") \cup FormValues("FIXED"),
        active \in BOOLEAN }

\* The forms the manager can fill in: a name or none, and a value in the
\* unit of the type.
ManagerForms ==
    {f \in OfferForms : f.discount_value \in FormValues(f.discount_type)}
    \cup {Form("", NoItem, "FIXED", 101 * Rupee, TRUE)}

NextOfferForm ==
    \/ Session
    \/ Tick
    \/ \E f \in ManagerForms : AddOffer(f)
    \/ \E sel \in DOMAIN offers, f \in ManagerForms : UpdateOffer(sel, f)
    \/ \E sel \in DOMAIN offers : DeleteOffer(sel)
    \/ Dismiss

SpecOfferForm == InitMenu /\ [][NextOfferForm]_vars

\* The discount value of a form or of a stored offer is in range.
InRange(o) ==
    /\ o.discount_value >= 0
    /\ o.discount_type = "PERCENTAGE" => o.discount_value <= 100

\* C28: after every step of the manager's offer panel every stored offer has
\* discount_value >= 0 and, when its type is PERCENTAGE, discount_value <=
\* 100; an add or an update with a value out of range, or with no name,
\* shows a message box and leaves the offers as they are.
C28_StoredDiscountsInRange ==
    [][/\ \A id \in DOMAIN offers' : InRange(offers'[id])
       /\ \A f \in ManagerForms :
             (AddOffer(f) \/ \E sel \in DOMAIN offers : UpdateOffer(sel, f))
                /\ (~InRange(f) \/ f.offer_name = "")
             => offers' = offers /\ offerSeq' = offerSeq /\ dialog' # None]_vars

\* An offer of 100 percent is stored, and a form out of range has just been
\* refused.
C28_Witness ==
    /\ dialog = "Invalid Value"
    /\ \E id \in DOMAIN offers :
          /\ offers[id].discount_type = "PERCENTAGE"
          /\ offers[id].discount_value = 100

-----------------------------------------------------------------------------
(* The payment: the total the cart shows and the total Order.create stores.  *)
(* _refresh_cart adds the line totals one by one with +=; Order.create adds  *)
(* them with sum(), which is the same left-to-right addition in CPython up   *)
(* to 3.11 and a compensated (Neumaier) summation from CPython 3.12 on.      *)

\* -1, 0 or 1 as the number a is below, equal to or above the number b.
RECURSIVE CmpBits(_, _)
CmpBits(a, b) ==
    IF a = <<>> /\ b = <<>> THEN 0
    ELSE LET high == CmpBits(HighBits(a), HighBits(b))
             la   == BitsInt(LowBits(a))
             lb   == BitsInt(LowBits(b))
         IN  IF high # 0 THEN high
             ELSE IF la > lb THEN 1 ELSE IF la < lb THEN 0 - 1 ELSE 0

\* The exact difference a - b - c of numbers a >= b + c, a chunk at a time.
RECURSIVE SubBits(_, _, _)
SubBits(a, b, c) ==
    IF a = <<>> THEN <<>>
    ELSE LET d == BitsInt(LowBits(a)) - BitsInt(LowBits(b)) - c
         IN  [i \in 1..Len(LowBits(a)) |-> ((d % 2^ChunkBits) \div 2^(i - 1)) % 2]
             \o SubBits(HighBits(a), HighBits(b), IF d < 0 THEN 1 ELSE 0)

\* A double of either sign: its sign and its magnitude.
Signed(neg, mag) == [neg |-> neg, mag |-> mag]

\* The + of two doubles of either sign.
SignedPlus(x, y) ==
    IF x.neg = y.neg
    THEN Signed(x.neg, Nearest(AddBits(x.mag, y.mag, 0), FALSE))
    ELSE IF CmpBits(x.mag, y.mag) >= 0
    THEN Signed(x.neg, Nearest(Trim(SubBits(x.mag, y.mag, 0)), FALSE))
    ELSE Signed(y.neg, Nearest(Trim(SubBits(y.mag, x.mag, 0)), FALSE))

\* The rounding error of f + x, which is what (f - t) + x, or (x - t) + f
\* when x is the larger, computes without error.
PlusError(f, x) ==
    LET s == AddBits(f, x, 0)
        t == Nearest(s, FALSE)
    IN  IF CmpBits(t, s) >= 0 THEN Signed(TRUE, Trim(SubBits(t, s, 0)))
        ELSE Signed(FALSE, Trim(SubBits(s, t, 0)))

\* sum(...) of CPython 3.12 and later over the lines from line i on: the sum
\* so far f and the compensation c, which is added at the end.
RECURSIVE CompensatedSum(_, _, _, _)
CompensatedSum(items, i, f, c) ==
    IF i > Len(items)
    THEN (IF c.mag = <<>> THEN f ELSE SignedPlus(Signed(FALSE, f), c).mag)
    ELSE LET x  == FloatTimes(FloatOf(items[i].price), items[i].qty)
             e  == IF CmpBits(f, x) >= 0 THEN PlusError(f, x) ELSE PlusError(x, f)
             c2 == SignedPlus(c, e)
         IN  IF c2.mag = <<>>
             THEN CompensatedSum(items, i + 1, FloatPlus(f, x), Signed(FALSE, <<>>))
             ELSE CompensatedSum(items, i + 1, FloatPlus(f, x), c2)

\* The two summations an interpreter may run for sum().
Summations == {"left to right", "compensated"}

\* Order.create under either summation.
OrderCreateTotal(cart_items, summation) ==
    IF summation = "left to right" THEN FloatOrderTotal(cart_items)
    ELSE FloatRound2(CompensatedSum(cart_items, 1, <<>>, Signed(FALSE, <<>>)))

\* _refresh_cart: total_var is set to the text f"{total:.2f}" of the sum of
\* the line totals.
RefreshTotal ==
    /\ ocResult = <<>>
    /\ ocResult' = <<FloatRound2(FloatSum(ocItems, 1, <<>>))>>
    /\ UNCHANGED <<appVars, cdpPrice, cdpOffers, cdpResult, ocItems, ocOther,
                   tokenVars, dbOutcome>>

\* _checkout: the order is created from the lines of the cart, and the
\* payment window gets float(total_var.get()).
PayCheckout(summation) ==
    /\ Len(ocResult) = 1
    /\ ocOther' = ocItems
    /\ ocResult' = <<ocResult[1], OrderCreateTotal(ocItems, summation), summation>>
    /\ UNCHANGED <<appVars, cdpPrice, cdpOffers, cdpResult, ocItems,
                   tokenVars, dbOutcome>>

InitPay ==
    /\ InitApp(6 :> Tea)
    /\ cdpPrice = 0 /\ cdpOffers = <<>> /\ cdpResult = <<>>
    /\ ocItems \in TotalLists(MaxLines)
    /\ ocOther = <<>>
    /\ ocResult = <<>>
    /\ InitTokens

NextPay ==
    \/ RefreshTotal
    \/ \E summation \in Summations : PayCheckout(summation)

SpecPay == InitPay /\ [][NextPay]_vars

\* C29: a checkout does not resolve the offers again: the order it creates
\* holds the lines of the cart with the unit prices of the last refresh, and
\* the amount of the payment window is the total_amount stored for that
\* order.
C29_PaidAmountIsStoredTotal ==
    Len(ocResult) = 3 =>
        /\ ocOther = ocItems
        /\ ocResult[1] = ocResult[2]

-----------------------------------------------------------------------------
(* Offers on deleted items *)

\* The item ids handed out so far that no menu row has any more.
DeletedItemIds == (1..itemSeq) \ DOMAIN menu

\* The item ids the offers returned for an item name.
ReturnedItemIds(item_id) ==
    {get_active_offers_for_item(item_id)[k].item_id :
        k \in 1..Len(get_active_offers_for_item(item_id))}

\* C30: delete_menu_item removes the menu row and nothing else: the offers,
\* those that name the deleted item_id included, stay as they are; the
\* counter of item ids never goes back and a new item gets an id above every
\* id handed out before; so in every state no offer that names a deleted
\* item_id is returned for an item of the menu.
C30_OffersOfDeletedItemsStayUnused ==
    [][/\ (dbOutcome' # <<>> /\ dbOutcome'[1] = "delete_menu_item") =>
             /\ offers' = offers /\ offerSeq' = offerSeq
             /\ DOMAIN menu' \subseteq DOMAIN menu
             /\ \A i \in DOMAIN menu' : menu'[i] = menu[i]
       /\ itemSeq' >= itemSeq
       /\ \A i \in DOMAIN menu' \ DOMAIN menu : i > itemSeq
       /\ \A i \in DOMAIN menu' :
             (ReturnedItemIds(i) \cap DeletedItemIds)' = {}]_vars

\* Tea was deleted while an active offer names it; the offer is still
\* stored, and the item added afterwards, under a new id, gets no offer.
C30_Witness ==
    /\ dbOutcome # <<>> /\ dbOutcome[1] = "add_menu_item" /\ dbOutcome[2] = "returned"
    /\ 6 \notin DOMAIN menu
    /\ \E id \in DOMAIN offers : offers[id].item_id = 6 /\ offers[id].active
    /\ MaxItemId \in DOMAIN menu
    /\ get_active_offers_for_item(MaxItemId) = <<>>

====
